---- MODULE Spec2Model ----
(***************************************************************************)
(* Model of the ma-cantine registry: published-canteen read endpoints,     *)
(* the public projection of diagnostics, canteen claims and the yearly     *)
(* purchase summary.                                                       *)
(*                                                                         *)
(* The views and serializers behind these endpoints are exercised by       *)
(*   src/api/tests/test_published_canteens.py                              *)
(*   src/api/tests/test_purchases.py                                       *)
(* and the purchase enumeration lives in src/data/models/purchase.py.      *)
(***************************************************************************)
EXTENDS Integers, Sequences, FiniteSets, Bags, TLC

\* ---------------------------------------------------------------- bounds
NUsers == 2
NCanteens == 2
NSirets == 2

\* null foreign key / absent id (assertIsNone(canteen.claimed_by))
None == 0
\* central_kitchen_diagnostic_mode=None
NoMode == "None"
\* daily_meal_count=None, and an absent meal-count bound of a query
NoCount == -1
\* department=None, management_type=None
NoDepartment == "None"
NoManagementType == "None"
\* Region.auvergne_rhone_alpes, Region.guadeloupe
Metropole == "auvergne_rhone_alpes"
Guadeloupe == "guadeloupe"
\* city_insee_code=None
NoCity == "None"
\* no exception escaped the call
NoException == ""

\* Q(sectors__id=22): the sector of the army / police / gendarmerie canteens
PoliceSectorId == 22
SchoolSectorId == 5
CompanySectorId == 7
\* the name _filter_by_sectors looks for
PoliceSectorName == "Restaurants des armees / police / gendarmerie"
\* the Sector table: sector 22 carries the police / army name
InitialSectors ==
    (SchoolSectorId :> "Scolaire") @@ (CompanySectorId :> "Entreprise")
    @@ (PoliceSectorId :> PoliceSectorName)

Users == 1..NUsers
Sirets == 1..NSirets

VARIABLES
    canteens,     \* table Canteen: sequence, index = primary key
    diagnostics,  \* table Diagnostic: set of rows, unique per (canteen, year)
    purchases,    \* table Purchase: bag of rows (rows differ by primary key only)
    teledeclarations, \* table Teledeclaration: set of rows
    sector_table, \* table Sector: primary key -> name
    cache,        \* django cache: sector id -> the serialized sector cached
    default_storage, \* file storage: file name -> content
    response      \* the last HTTP response

vars == <<canteens, diagnostics, purchases, teledeclarations, sector_table, cache,
          default_storage, response>>

CanteenIds == DOMAIN canteens

NoResponse == [op |-> "none", status |-> 0, user |-> None, canteen |-> None, body |-> <<>>]

\* ------------------------------------------------------------ the tables
PublicationStatus == {"draft", "published"}
ProductionType == {"CENTRAL", "ON_SITE", "ON_SITE_CENTRAL"}

\* CanteenFactory.create(**attrs): a new row with the next primary key
CanteenFactoryCreate(attrs) ==
    /\ Len(canteens) < NCanteens
    /\ canteens' = Append(canteens, attrs)
    /\ response' = NoResponse
    /\ UNCHANGED <<diagnostics, purchases, teledeclarations, sector_table, cache,
                 default_storage>>

\* canteen.managers.add(user)
ManagersAdd(c, u) ==
    /\ c \in CanteenIds
    /\ u \notin canteens[c].managers
    /\ canteens' = [canteens EXCEPT ![c].managers = @ \cup {u}]
    /\ response' = NoResponse
    /\ UNCHANGED <<diagnostics, purchases, teledeclarations, sector_table, cache,
                 default_storage>>

\* canteen.managers.clear()
ManagersClear(c) ==
    /\ c \in CanteenIds
    /\ canteens[c].managers # {}
    /\ canteens' = [canteens EXCEPT ![c].managers = {}]
    /\ response' = NoResponse
    /\ UNCHANGED <<diagnostics, purchases, teledeclarations, sector_table, cache,
                 default_storage>>

\* ------------------------------------------------------- claim / un-claim
\* POST claim_canteen, the handler without its "already managed" check
ClaimCanteenUnchecked(u, c) ==
    /\ c \in CanteenIds
    /\ canteens' = [canteens EXCEPT ![c].managers = @ \cup {u},
                                    ![c].claimed_by = u,
                                    ![c].has_been_claimed = TRUE]
    /\ response' = [op |-> "claim", status |-> 200, user |-> u, canteen |-> c,
                    body |-> <<c>>]
    /\ UNCHANGED <<diagnostics, purchases, teledeclarations, sector_table, cache,
                 default_storage>>

\* POST claim_canteen open to published canteens only
ClaimCanteenPublishedOnly(u, c) ==
    /\ c \in CanteenIds
    /\ IF canteens[c].managers # {} \/ canteens[c].publication_status # "published"
       THEN /\ response' = [op |-> "claim", status |-> 400, user |-> u,
                            canteen |-> c, body |-> <<>>]
            /\ UNCHANGED canteens
       ELSE /\ canteens' = [canteens EXCEPT ![c].managers = @ \cup {u},
                                            ![c].claimed_by = u,
                                            ![c].has_been_claimed = TRUE]
            /\ response' = [op |-> "claim", status |-> 200, user |-> u,
                            canteen |-> c, body |-> <<c>>]
    /\ UNCHANGED <<diagnostics, purchases, teledeclarations, sector_table, cache,
                 default_storage>>

\* POST claim_canteen that forgets to record the claimer
ClaimCanteenWithoutClaimer(u, c) ==
    /\ c \in CanteenIds
    /\ IF canteens[c].managers # {}
       THEN /\ response' = [op |-> "claim", status |-> 400, user |-> u,
                            canteen |-> c, body |-> <<>>]
            /\ UNCHANGED canteens
       ELSE /\ canteens' = [canteens EXCEPT ![c].managers = @ \cup {u},
                                            ![c].has_been_claimed = TRUE]
            /\ response' = [op |-> "claim", status |-> 200, user |-> u,
                            canteen |-> c, body |-> <<c>>]
    /\ UNCHANGED <<diagnostics, purchases, teledeclarations, sector_table, cache,
                 default_storage>>

\* POST claim_canteen as the authenticated user u
ClaimCanteen(u, c) ==
    /\ c \in CanteenIds
    /\ IF canteens[c].managers # {}
       THEN /\ response' = [op |-> "claim", status |-> 400, user |-> u,
                            canteen |-> c, body |-> <<>>]
            /\ UNCHANGED canteens
       ELSE /\ canteens' = [canteens EXCEPT ![c].managers = @ \cup {u},
                                            ![c].claimed_by = u,
                                            ![c].has_been_claimed = TRUE]
            /\ response' = [op |-> "claim", status |-> 200, user |-> u,
                            canteen |-> c, body |-> <<c>>]
    /\ UNCHANGED <<diagnostics, purchases, teledeclarations, sector_table, cache,
                 default_storage>>

\* POST undo_claim_canteen open to every manager of the canteen
UndoClaimCanteenAnyManager(u, c) ==
    /\ c \in CanteenIds
    /\ IF canteens[c].claimed_by = u \/ u \in canteens[c].managers
       THEN /\ canteens' = [canteens EXCEPT ![c].managers = @ \ {u},
                                            ![c].claimed_by = None,
                                            ![c].has_been_claimed = FALSE]
            /\ response' = [op |-> "undo_claim", status |-> 200, user |-> u,
                            canteen |-> c, body |-> <<>>]
       ELSE /\ response' = [op |-> "undo_claim", status |-> 403, user |-> u,
                            canteen |-> c, body |-> <<>>]
            /\ UNCHANGED canteens
    /\ UNCHANGED <<diagnostics, purchases, teledeclarations, sector_table, cache,
                 default_storage>>

\* POST undo_claim_canteen leaving the claimer among the managers
UndoClaimCanteenKeepsManager(u, c) ==
    /\ c \in CanteenIds
    /\ IF canteens[c].claimed_by = u
       THEN /\ canteens' = [canteens EXCEPT ![c].claimed_by = None,
                                            ![c].has_been_claimed = FALSE]
            /\ response' = [op |-> "undo_claim", status |-> 200, user |-> u,
                            canteen |-> c, body |-> <<>>]
       ELSE /\ response' = [op |-> "undo_claim", status |-> 403, user |-> u,
                            canteen |-> c, body |-> <<>>]
            /\ UNCHANGED canteens
    /\ UNCHANGED <<diagnostics, purchases, teledeclarations, sector_table, cache,
                 default_storage>>

\* POST undo_claim_canteen as the authenticated user u
UndoClaimCanteen(u, c) ==
    /\ c \in CanteenIds
    /\ IF canteens[c].claimed_by = u
       THEN /\ canteens' = [canteens EXCEPT ![c].managers = @ \ {u},
                                            ![c].claimed_by = None,
                                            ![c].has_been_claimed = FALSE]
            /\ response' = [op |-> "undo_claim", status |-> 200, user |-> u,
                            canteen |-> c, body |-> <<>>]
       ELSE /\ response' = [op |-> "undo_claim", status |-> 403, user |-> u,
                            canteen |-> c, body |-> <<>>]
            /\ UNCHANGED canteens
    /\ UNCHANGED <<diagnostics, purchases, teledeclarations, sector_table, cache,
                 default_storage>>

\* The canteens the claim tests create: any publication status, managers
\* given by the factory, optionally created as already claimed.
ClaimCanteenAttrs ==
    [publication_status : PublicationStatus,
     production_type : {"ON_SITE"},
     siret : {None},
     central_producer_siret : {None},
     managers : SUBSET Users \ {{}},
     claimed_by : Users \cup {None},
     has_been_claimed : BOOLEAN,
     daily_meal_count : {NoCount},
     department : {NoDepartment},
     sectors : {{}},
     management_type : {NoManagementType},
     region : {Metropole},
     deletion_date : {None},
     city_insee_code : {NoCity}]

CreateClaimCanteen ==
    \E attrs \in ClaimCanteenAttrs :
        /\ attrs.has_been_claimed = (attrs.claimed_by # None)
        /\ CanteenFactoryCreate(attrs)

AddManager == \E c \in CanteenIds, u \in Users : ManagersAdd(c, u)

ClearManagers == \E c \in CanteenIds : ManagersClear(c)

Claim == \E u \in Users, c \in CanteenIds : ClaimCanteen(u, c)

UndoClaim == \E u \in Users, c \in CanteenIds : UndoClaimCanteen(u, c)

Init ==
    /\ canteens = <<>>
    /\ diagnostics = {}
    /\ purchases = EmptyBag
    /\ teledeclarations = {}
    /\ sector_table = InitialSectors
    /\ cache = <<>>
    /\ default_storage = <<>>
    /\ response = NoResponse


\* ------------------------------------------------------------- purchases
MaxPurchases == 2
MaxChars == 2
MaxPrice == 2
\* the year the summary tests ask for, and how many earlier years hold purchases
SummaryYear == 2020
NOtherYears == 1

\* Purchase.Characteristic (stored codes; IGP is stored as "ICP")
BIO == "BIO"
CONVERSION_BIO == "CONVERSION_BIO"
LABEL_ROUGE == "LABEL_ROUGE"
AOCAOP == "AOCAOP"
IGP == "ICP"
STG == "STG"
HVE == "HVE"
PECHE_DURABLE == "PECHE_DURABLE"

Characteristic ==
    {BIO, CONVERSION_BIO, LABEL_ROUGE, AOCAOP, IGP, STG, HVE, PECHE_DURABLE,
     "RUP", "FERMIER", "EXTERNALITES", "COMMERCE_EQUITABLE", "PERFORMANCE",
     "EQUIVALENTS"}

\* the characteristics the purchases of test_purchase_total_summary carry
SummaryCharacteristics ==
    {BIO, CONVERSION_BIO, LABEL_ROUGE, AOCAOP, IGP, HVE, PECHE_DURABLE}

PurchaseYears == (SummaryYear - NOtherYears)..SummaryYear

\* PurchaseFactory.create(canteen=, date=, characteristics=, price_ht=)
PurchaseFactoryCreate(p) ==
    /\ p.canteen \in CanteenIds
    /\ BagCardinality(purchases) < MaxPurchases
    /\ purchases' = purchases (+) SetToBag({p})
    /\ response' = NoResponse
    /\ UNCHANGED <<canteens, diagnostics, teledeclarations, sector_table, cache,
                 default_storage>>

\* aggregate(Sum("price_ht")) over a bag of rows
RECURSIVE SumPriceHt(_)
SumPriceHt(rows) ==
    IF DOMAIN rows = {} THEN 0
    ELSE LET p == CHOOSE q \in DOMAIN rows : TRUE
             rest == [q \in DOMAIN rows \ {p} |-> rows[q]]
         IN p.price_ht * rows[p] + SumPriceHt(rest)

\* queryset.filter(...): the rows of a bag satisfying a predicate
Filter(rows, Keep(_)) == [p \in {q \in DOMAIN rows : Keep(q)} |-> rows[p]]

\* characteristics__contains=[x] OR-ed over the labels of a bucket
HasAny(p, labels) == p.characteristics \cap labels # {}

BioLabels == {BIO, CONVERSION_BIO}
SustainableLabelsSpec == {LABEL_ROUGE, AOCAOP, IGP, STG}
\* the labels whose non-bio purchases the test counts under "sustainable"
SustainableLabels == {HVE, LABEL_ROUGE, AOCAOP, IGP, STG, PECHE_DURABLE}
HveLabels == {HVE}
RougeLabels == {LABEL_ROUGE}
AocAopIgpLabels == {AOCAOP, IGP}

\* bio without the purchases in conversion
IsBioWithoutConversion(p) == BIO \in p.characteristics

\* bio or in conversion to bio
IsBio(p) == HasAny(p, BioLabels)

\* Sum of price_ht over the non-bio rows carrying one of the labels, where a
\* row joined once per matching label is summed once per match
BucketTotalPerLabel(rows, labels) ==
    LET Match(l) == Filter(rows, LAMBDA p : ~IsBio(p) /\ l \in p.characteristics)
        RECURSIVE Over(_)
        Over(ls) == IF ls = {} THEN 0
                    ELSE LET l == CHOOSE x \in ls : TRUE
                         IN SumPriceHt(Match(l)) + Over(ls \ {l})
    IN Over(labels)

\* Sum of price_ht over the rows carrying one of the labels, bio rows included
BucketTotalWithBio(rows, labels) ==
    SumPriceHt(Filter(rows, LAMBDA p : HasAny(p, labels)))

\* Sum of price_ht over the distinct non-bio rows carrying one of the labels
BucketTotal(rows, labels) ==
    SumPriceHt(Filter(rows, LAMBDA p : ~IsBio(p) /\ HasAny(p, labels)))

\* Sum over every bio row
BioTotal(rows) == SumPriceHt(Filter(rows, LAMBDA p : IsBio(p)))

\* Purchase.objects.filter(canteen__id=canteen_pk), the year filter dropped
CanteenPurchasesAnyYear(rows, c, y) == Filter(rows, LAMBDA p : p.canteen = c)

\* Purchase.objects.filter(canteen__id=canteen_pk, date__year=year)
CanteenPurchases(rows, c, y) ==
    Filter(rows, LAMBDA p : p.canteen = c /\ p.year = y)

\* the body of the yearly summary of canteen c
PurchasesSummary(rows, c, y) ==
    LET ps == CanteenPurchases(rows, c, y)
    IN [year |-> y,
        total |-> SumPriceHt(ps),
        bio |-> BioTotal(ps),
        sustainable |-> BucketTotal(ps, SustainableLabels),
        hve |-> BucketTotal(ps, HveLabels),
        rouge |-> BucketTotal(ps, RougeLabels),
        aocAopIgp |-> BucketTotal(ps, AocAopIgpLabels)]

\* the permission outcome with a not-managed canteen reported as not-found
SummaryPermissionNotFound(u, c) ==
    IF c \notin CanteenIds THEN 404
    ELSE IF u \notin canteens[c].managers THEN 404
    ELSE 200

\* IsCanteenManagerUrlParam as the tests pin it: unknown canteen 404,
\* canteen not managed by the requester 403
SummaryPermission(u, c) ==
    IF c \notin CanteenIds THEN 404
    ELSE IF u \notin canteens[c].managers THEN 403
    ELSE 200

\* GET canteen_purchases_summary as the authenticated user u; y = None when
\* the year parameter is missing
CanteenPurchasesSummary(u, c, y) ==
    LET perm == SummaryPermission(u, c)
        status == IF perm # 200 THEN perm ELSE IF y = None THEN 400 ELSE 200
    IN /\ response' = [op |-> "summary", status |-> status, user |-> u,
                       canteen |-> c,
                       body |-> IF status = 200
                                THEN PurchasesSummary(purchases, c, y)
                                ELSE <<>>]
       /\ UNCHANGED <<canteens, diagnostics, purchases, teledeclarations, sector_table, cache,
                 default_storage>>

\* The canteens of the purchase tests
PurchaseCanteenAttrs ==
    [publication_status : {"draft"},
     production_type : {"ON_SITE"},
     siret : {None},
     central_producer_siret : {None},
     managers : {{u} : u \in Users},
     claimed_by : {None},
     has_been_claimed : {FALSE},
     daily_meal_count : {NoCount},
     department : {NoDepartment},
     sectors : {{}},
     management_type : {NoManagementType},
     region : {Metropole},
     deletion_date : {None},
     city_insee_code : {NoCity}]

PurchaseRows ==
    [canteen : 1..NCanteens,
     year : PurchaseYears,
     characteristics : {cs \in SUBSET SummaryCharacteristics : Cardinality(cs) <= MaxChars},
     price_ht : 1..MaxPrice]

CreatePurchaseCanteen ==
    \E attrs \in PurchaseCanteenAttrs :
        /\ attrs.managers = {IF Len(canteens) + 1 \in Users THEN Len(canteens) + 1 ELSE 1}
        /\ CanteenFactoryCreate(attrs)

CreatePurchase == \E p \in PurchaseRows : PurchaseFactoryCreate(p)

GetSummary ==
    \E u \in Users, c \in 1..(NCanteens + 1), y \in {SummaryYear, None} :
        CanteenPurchasesSummary(u, c, y)

NextPurchases ==
    \/ CreatePurchaseCanteen
    \/ CreatePurchase
    \/ GetSummary

SpecPurchases == Init /\ [][NextPurchases]_vars

\* ------------------------------------------- readable labels of a purchase
MaxItems == 3

\* Python None among stored strings and as the value of a property
Null == "<None>"

\* Purchase.Category: stored value -> label (labels written without accents)
CategoryLabels ==
    [v \in {"VIANDES_VOLAILLES", "PRODUITS_DE_LA_MER", "FRUITS_ET_LEGUMES",
            "PRODUITS_CEREALIERS", "ENTREES", "PRODUITS_LAITIERS", "BOISSONS",
            "AIDES", "BEURRE_OEUF_FROMAGE", "PRODUITS_SUCRES",
            "ALIMENTS_INFANTILES", "GLACES_SORBETS", "AUTRES"} |->
        CASE v = "VIANDES_VOLAILLES" -> "Viandes, volailles"
          [] v = "PRODUITS_DE_LA_MER" -> "Produits de la mer"
          [] v = "FRUITS_ET_LEGUMES" -> "Fruits, legumes, legumineuses et oleagineux"
          [] v = "PRODUITS_CEREALIERS" -> "Produits cerealiers"
          [] v = "ENTREES" -> "Entrees et plats composes"
          [] v = "PRODUITS_LAITIERS" -> "Lait et produits laitiers"
          [] v = "BOISSONS" -> "Boissons"
          [] v = "AIDES" -> "Aides culinaires et ingredients divers"
          [] v = "BEURRE_OEUF_FROMAGE" -> "Beurre, oeuf, fromage"
          [] v = "PRODUITS_SUCRES" -> "Produits sucres"
          [] v = "ALIMENTS_INFANTILES" -> "Aliments infantiles"
          [] v = "GLACES_SORBETS" -> "Glaces et sorbets"
          [] v = "AUTRES" -> "Autres"]

\* Purchase.Characteristic: stored value -> label
CharacteristicLabels ==
    [v \in Characteristic |->
        CASE v = BIO -> "Bio"
          [] v = CONVERSION_BIO -> "En conversion bio"
          [] v = LABEL_ROUGE -> "Label rouge"
          [] v = AOCAOP -> "AOC / AOP"
          [] v = IGP -> "Indication geographique protegee"
          [] v = STG -> "Specialite traditionnelle garantie"
          [] v = HVE -> "Haute valeur environnementale"
          [] v = PECHE_DURABLE -> "Peche durable"
          [] v = "RUP" -> "Region ultraperipherique"
          [] v = "FERMIER" -> "Fermier"
          [] v = "EXTERNALITES" -> "Produit prenant en compte les couts imputes aux externalites environnementales pendant son cycle de vie"
          [] v = "COMMERCE_EQUITABLE" -> "Commerce equitable"
          [] v = "PERFORMANCE" -> "Produits acquis sur la base de leurs performances en matiere environnementale"
          [] v = "EQUIVALENTS" -> "Produits equivalents"]

\* Purchase.Category(value): the member, or ValueError
CategoryLookup(v) ==
    IF v \in DOMAIN CategoryLabels
    THEN [exception |-> NoException, label |-> CategoryLabels[v]]
    ELSE [exception |-> "ValueError", label |-> Null]

\* Purchase.Characteristic(value): the member, or ValueError
CharacteristicLookup(v) ==
    IF v \in DOMAIN CharacteristicLabels
    THEN [exception |-> NoException, label |-> CharacteristicLabels[v]]
    ELSE [exception |-> "ValueError", label |-> Null]

\* ", ".join(labels)
RECURSIVE Join(_)
Join(labels) ==
    IF labels = <<>> THEN ""
    ELSE IF Len(labels) = 1 THEN labels[1]
    ELSE labels[1] \o ", " \o Join(Tail(labels))

\* Purchase.readable_category
readable_category(p) ==
    IF p.category \in {Null, ""} THEN [exception |-> NoException, value |-> Null]
    ELSE LET found == CategoryLookup(p.category)
         IN IF found.exception # NoException
            THEN [exception |-> NoException, value |-> Null]
            ELSE [exception |-> NoException, value |-> found.label]

\* the loop of readable_characteristics: labels of the items that are members
RECURSIVE valid_characteristics(_)
valid_characteristics(items) ==
    IF items = <<>> THEN <<>>
    ELSE LET found == CharacteristicLookup(Head(items))
         IN (IF found.exception # NoException THEN <<>> ELSE <<found.label>>)
            \o valid_characteristics(Tail(items))

\* readable_characteristics without the try: the first lookup that fails
\* raises
readable_characteristics_unguarded(p) ==
    IF p.characteristics.null \/ p.characteristics.items = <<>>
    THEN [exception |-> NoException, value |-> Null]
    ELSE LET items == p.characteristics.items
             labels == valid_characteristics(items)
         IN IF Len(labels) # Len(items)
            THEN [exception |-> "ValueError", value |-> Null]
            ELSE [exception |-> NoException, value |-> Join(labels)]

\* Purchase.readable_characteristics
readable_characteristics(p) ==
    IF p.characteristics.null \/ p.characteristics.items = <<>>
    THEN [exception |-> NoException, value |-> Null]
    ELSE LET labels == valid_characteristics(p.characteristics.items)
         IN [exception |-> NoException,
             value |-> IF labels # <<>> THEN Join(labels) ELSE Null]

\* stored values: members, a value that is no member ("IGP" is stored as
\* "ICP"), null and the empty string
StoredCategories == {Null, "", "PRODUITS_DE_LA_MER", "AUTRES", "POISSON"}
StoredItems == {BIO, IGP, "IGP", Null}

RECURSIVE ItemLists(_)
ItemLists(n) ==
    IF n = 0 THEN {<<>>}
    ELSE LET shorter == ItemLists(n - 1)
         IN shorter \cup {Append(l, i) : l \in shorter, i \in StoredItems}

StoredPurchases ==
    [category : StoredCategories,
     characteristics :
        {[null |-> TRUE, items |-> <<>>]}
        \cup {[null |-> FALSE, items |-> l] : l \in ItemLists(MaxItems)}]

\* one stored purchase, whatever its category and characteristics
InitReadable ==
    /\ canteens = <<>>
    /\ diagnostics = {}
    /\ purchases \in {SetToBag({p}) : p \in StoredPurchases}
    /\ teledeclarations = {}
    /\ sector_table = InitialSectors
    /\ cache = <<>>
    /\ default_storage = <<>>
    /\ response = NoResponse

ReadCategory ==
    \E p \in DOMAIN purchases :
        /\ response' = [op |-> "readable_category", status |-> 0, user |-> None,
                        canteen |-> None,
                        body |-> [target |-> p] @@ readable_category(p)]
        /\ UNCHANGED <<canteens, diagnostics, purchases, teledeclarations, sector_table, cache,
                 default_storage>>

ReadCharacteristics ==
    \E p \in DOMAIN purchases :
        /\ response' = [op |-> "readable_characteristics", status |-> 0,
                        user |-> None, canteen |-> None,
                        body |-> [target |-> p] @@ readable_characteristics(p)]
        /\ UNCHANGED <<canteens, diagnostics, purchases, teledeclarations, sector_table, cache,
                 default_storage>>

NextReadable ==
    \/ ReadCategory
    \/ ReadCharacteristics

SpecReadable == InitReadable /\ [][NextReadable]_vars

\* ------------------------------------------------- purchase list / CRUD
\* Purchase.Category values the list tests use
PurchaseCategories == {"PRODUITS_DE_LA_MER", "FRUITS_ET_LEGUMES"}
\* descriptions given to PurchaseFactory.create, and the one a PATCH sets
Descriptions == {"avoine", "tomates"}
Saumon == "Saumon"
\* absent query parameter
NoParam == ""

\* every stored purchase, whoever manages its canteen
AllPurchases(u) == purchases

\* Purchase.objects.filter(canteen__in=user.canteens.all())
UserPurchases(u) ==
    Filter(purchases, LAMBDA p : u \in canteens[p.canteen].managers)

\* search / category / characteristics / canteen__id filters of the list
FilterPurchases(rows, q) ==
    Filter(rows, LAMBDA p :
        /\ q.search # NoParam => p.description = q.search
        /\ q.category # NoParam => p.category = q.category
        /\ q.characteristics \subseteq p.characteristics
        /\ q.canteen # None => p.canteen = q.canteen)

\* GET purchase_list_create as u: the page of results and the filter options
\* with data, all drawn from the purchases of the canteens u manages
PurchaseList(u, q) ==
    LET mine == UserPurchases(u)
    IN /\ response' =
            [op |-> "purchase_list", status |-> 200, user |-> u, canteen |-> None,
             body |-> [query |-> q,
                       results |-> FilterPurchases(mine, q),
                       categories |-> {p.category : p \in DOMAIN mine},
                       characteristics |-> UNION {p.characteristics : p \in DOMAIN mine},
                       canteens |-> {p.canteen : p \in DOMAIN mine}]]
       /\ UNCHANGED <<canteens, diagnostics, purchases, teledeclarations, sector_table, cache,
                 default_storage>>

\* POST purchase_list_create as u, None when not authenticated
PurchaseCreate(u, payload) ==
    LET status == IF u = None THEN 403
                  ELSE IF payload.canteen \notin CanteenIds THEN 404
                  ELSE IF u \notin canteens[payload.canteen].managers THEN 403
                  ELSE 201
    IN /\ status = 201 => BagCardinality(purchases) < MaxPurchases
       /\ purchases' = IF status = 201 THEN purchases (+) SetToBag({payload})
                       ELSE purchases
       /\ response' = [op |-> "purchase_create", status |-> status, user |-> u,
                       canteen |-> payload.canteen, body |-> [target |-> payload]]
       /\ UNCHANGED <<canteens, diagnostics, teledeclarations, sector_table, cache,
                 default_storage>>

\* PATCH purchase_retrieve_update_destroy with the canteen of the payload
\* left unchecked
PurchaseUpdateAnyCanteen(u, p, newCanteen) ==
    LET status == IF u = None THEN 403
                  ELSE IF u \notin canteens[p.canteen].managers THEN 404
                  ELSE 200
        updated == [p EXCEPT !.description = Saumon, !.price_ht = MaxPrice,
                             !.canteen = IF newCanteen = None THEN @ ELSE newCanteen]
    IN /\ BagIn(p, purchases)
       /\ newCanteen # None => newCanteen \in CanteenIds
       /\ purchases' = IF status = 200
                       THEN (purchases (-) SetToBag({p})) (+) SetToBag({updated})
                       ELSE purchases
       /\ response' = [op |-> "purchase_update", status |-> status, user |-> u,
                       canteen |-> p.canteen,
                       body |-> [target |-> p, payload |-> newCanteen]]
       /\ UNCHANGED <<canteens, diagnostics, teledeclarations, sector_table, cache,
                 default_storage>>

\* PATCH purchase_retrieve_update_destroy as u (None when not authenticated)
\* on the stored row p; the payload names a new canteen or None
PurchaseUpdate(u, p, newCanteen) ==
    LET status == IF u = None THEN 403
                  ELSE IF u \notin canteens[p.canteen].managers THEN 404
                  ELSE IF newCanteen # None /\ u \notin canteens[newCanteen].managers
                       THEN 403
                  ELSE 200
        updated == [p EXCEPT !.description = Saumon, !.price_ht = MaxPrice,
                             !.canteen = IF newCanteen = None THEN @ ELSE newCanteen]
    IN /\ BagIn(p, purchases)
       /\ newCanteen # None => newCanteen \in CanteenIds
       /\ purchases' = IF status = 200
                       THEN (purchases (-) SetToBag({p})) (+) SetToBag({updated})
                       ELSE purchases
       /\ response' = [op |-> "purchase_update", status |-> status, user |-> u,
                       canteen |-> p.canteen,
                       body |-> [target |-> p, payload |-> newCanteen]]
       /\ UNCHANGED <<canteens, diagnostics, teledeclarations, sector_table, cache,
                 default_storage>>

\* DELETE purchase_retrieve_update_destroy as u (None when not
\* authenticated) on the stored row p
PurchaseDelete(u, p) ==
    LET status == IF u = None THEN 403
                  ELSE IF u \notin canteens[p.canteen].managers THEN 404
                  ELSE 204
    IN /\ BagIn(p, purchases)
       /\ purchases' = IF status = 204 THEN purchases (-) SetToBag({p}) ELSE purchases
       /\ response' = [op |-> "purchase_delete", status |-> status, user |-> u,
                       canteen |-> p.canteen, body |-> [target |-> p]]
       /\ UNCHANGED <<canteens, diagnostics, teledeclarations, sector_table, cache,
                 default_storage>>

\* the rows PurchaseFactory.create and the POST payload give
ListedPurchaseRows ==
    [canteen : 1..NCanteens,
     year : {SummaryYear},
     category : PurchaseCategories,
     characteristics : {{}, {BIO}},
     description : Descriptions,
     price_ht : {1}]

PurchaseQueries ==
    [search : {NoParam, "avoine"},
     category : {NoParam, "PRODUITS_DE_LA_MER"},
     characteristics : {{}, {BIO}},
     canteen : {None, 1}]

CreateListedPurchase == \E p \in ListedPurchaseRows : PurchaseFactoryCreate(p)

ListPurchases == \E u \in Users, q \in PurchaseQueries : PurchaseList(u, q)

PostPurchase ==
    \E u \in Users, p \in ListedPurchaseRows, c \in 1..(NCanteens + 1) :
        /\ p.category = "PRODUITS_DE_LA_MER" /\ p.characteristics = {BIO}
        /\ p.description = "avoine"
        /\ PurchaseCreate(u, [p EXCEPT !.canteen = c])

PatchPurchase ==
    \E u \in Users, p \in DOMAIN purchases, c \in {None} \cup CanteenIds :
        PurchaseUpdate(u, p, c)

DeletePurchase == \E u \in Users, p \in DOMAIN purchases : PurchaseDelete(u, p)

NextPurchaseApi ==
    \/ CreatePurchaseCanteen
    \/ AddManager
    \/ CreateListedPurchase
    \/ ListPurchases
    \/ PostPurchase
    \/ PatchPurchase
    \/ DeletePurchase

SpecPurchaseApi == Init /\ [][NextPurchaseApi]_vars

\* the writes and the summary, by a logged-in user or by nobody
Callers == Users \cup {None}

AuthPurchaseRows ==
    {p \in ListedPurchaseRows :
        /\ p.category = "PRODUITS_DE_LA_MER"
        /\ p.characteristics = {BIO}
        /\ p.description = "avoine"}

CreateAuthPurchase == \E p \in AuthPurchaseRows : PurchaseFactoryCreate(p)

PostPurchaseAs ==
    \E u \in Callers, p \in AuthPurchaseRows, c \in 1..(NCanteens + 1) :
        PurchaseCreate(u, [p EXCEPT !.canteen = c])

PatchPurchaseAs ==
    \E u \in Callers, p \in DOMAIN purchases, c \in {None} \cup CanteenIds :
        PurchaseUpdate(u, p, c)

DeletePurchaseAs == \E u \in Callers, p \in DOMAIN purchases : PurchaseDelete(u, p)

GetSummaryAs ==
    \E u \in Callers, c \in CanteenIds : CanteenPurchasesSummary(u, c, SummaryYear)

NextPurchaseAuth ==
    \/ CreatePurchaseCanteen
    \/ AddManager
    \/ CreateAuthPurchase
    \/ PostPurchaseAs
    \/ PatchPurchaseAs
    \/ DeletePurchaseAs
    \/ GetSummaryAs

SpecPurchaseAuth == Init /\ [][NextPurchaseAuth]_vars

\* ---------------------------------------------------- public diagnostics
MaxValue == 2
MaxDiagnostics == 2

\* Diagnostic.CentralKitchenDiagnosticMode
APPRO == "APPRO"
ALL == "ALL"
CentralKitchenDiagnosticMode == {APPRO, ALL}

\* The raw monetary fields of a diagnostic: model field, its key in the
\* payload, the key of its percentage, and the field it is a share of.
FieldTable ==
    {[field |-> "value_total_ht", key |-> "valueTotalHt",
      pct |-> "percentageValueTotalHt", den |-> "value_total_ht"],
     [field |-> "value_bio_ht", key |-> "valueBioHt",
      pct |-> "percentageValueBioHt", den |-> "value_total_ht"],
     [field |-> "value_sustainable_ht", key |-> "valueSustainableHt",
      pct |-> "percentageValueSustainableHt", den |-> "value_total_ht"],
     [field |-> "value_meat_poultry_ht", key |-> "valueMeatPoultryHt",
      pct |-> "percentageValueMeatPoultryHt", den |-> "value_total_ht"],
     [field |-> "value_fish_ht", key |-> "valueFishHt",
      pct |-> "percentageValueFishHt", den |-> "value_total_ht"],
     [field |-> "value_meat_poultry_egalim_ht", key |-> "valueMeatPoultryEgalimHt",
      pct |-> "percentageValueMeatPoultryEgalimHt", den |-> "value_meat_poultry_ht"],
     [field |-> "value_meat_poultry_france_ht", key |-> "valueMeatPoultryFranceHt",
      pct |-> "percentageValueMeatPoultryFranceHt", den |-> "value_meat_poultry_ht"],
     [field |-> "value_fish_egalim_ht", key |-> "valueFishEgalimHt",
      pct |-> "percentageValueFishEgalimHt", den |-> "value_fish_ht"]}

RawFields == {f.field : f \in FieldTable}
RawKeys == {f.key : f \in FieldTable}
PercentageKeys == {f.pct : f \in FieldTable}

\* the fields a central kitchen shares in APPRO mode
ApproFields == {"value_total_ht", "value_bio_ht", "value_sustainable_ht"}
\* the non-monetary keys of a diagnostic payload
NonApproKeys == {"hasWasteDiagnostic"}

\* every share taken of the grand total
DenominatorAlwaysTotal(f) == "value_total_ht"

\* the field a raw field is a share of: the grand total, or the meat / fish
\* subtotal for the EGAlim and France parts of that subtotal
Denominator(f) == f.den

\* a field that is not null on the row
Defined(d, name) == name \in DOMAIN d.values

\* the percentage can be computed: numerator not null, denominator truthy
HasPercentage(d, f) ==
    /\ Defined(d, f.field)
    /\ Defined(d, Denominator(f))
    /\ d.values[Denominator(f)] > 0

\* value / denominator, kept as the pair <<value, denominator>>
Percentage(d, f) == <<d.values[f.field], d.values[Denominator(f)]>>

\* the serializer's plain output: every field of the row, nulls included
FullRepresentation(d) ==
    [k \in {"year", "hasWasteDiagnostic"} \cup RawKeys |->
        IF k = "year" THEN d.year
        ELSE IF k = "hasWasteDiagnostic" THEN d.has_waste_diagnostic
        ELSE LET f == CHOOSE g \in FieldTable : g.key = k
             IN IF Defined(d, f.field) THEN d.values[f.field] ELSE "null"]

\* raw keys dropped only where the percentage could be computed
RawKeysRemovedWithTotals(d) ==
    {f.key : f \in {g \in FieldTable : HasPercentage(d, g)}}

\* the raw keys popped from the payload: all of them, computed or not
RawKeysRemoved(d) == RawKeys

\* the percentage keys added to the payload
Percentages(d) ==
    [k \in {f.pct : f \in {g \in FieldTable : HasPercentage(d, g)}} |->
        Percentage(d, CHOOSE f \in FieldTable : f.pct = k)]

\* to_representation of the public serializer: percentages in, raw values out
PublicDiagnosticRepresentation(d) ==
    LET full == FullRepresentation(d)
        pcts == Percentages(d)
        kept == (DOMAIN full \ RawKeysRemoved(d)) \cup DOMAIN pcts
    IN [k \in kept |-> IF k \in DOMAIN pcts THEN pcts[k] ELSE full[k]]

\* APPRO mode sharing every key, like ALL
KeysHiddenInApproNone(rep) == {}

\* the keys an APPRO-mode central diagnostic keeps from its satellites
KeysHiddenInAppro(rep) ==
    (DOMAIN rep \cap NonApproKeys)
    \cup (DOMAIN rep \cap {f.pct : f \in {g \in FieldTable : g.field \notin ApproFields}})

\* to_representation of the serializer of central-kitchen diagnostics
CentralKitchenDiagnosticRepresentation(d) ==
    LET rep == PublicDiagnosticRepresentation(d)
        kept == IF d.central_kitchen_diagnostic_mode = APPRO
                THEN DOMAIN rep \ KeysHiddenInAppro(rep)
                ELSE DOMAIN rep
    IN [k \in kept |-> rep[k]]

\* ------------------------------------------- projection of one diagnostic
PublicationYear == 2021

\* every row over the raw fields with values 0..MaxValue or null
DiagnosticInputs ==
    UNION {[canteen : {1}, year : {PublicationYear},
            central_kitchen_diagnostic_mode : CentralKitchenDiagnosticMode \cup {NoMode},
            has_waste_diagnostic : {FALSE},
            values : [fs -> 0..MaxValue]] : fs \in SUBSET RawFields}

InitProjection ==
    /\ canteens = <<>>
    /\ purchases = EmptyBag
    /\ teledeclarations = {}
    /\ sector_table = InitialSectors
    /\ cache = <<>>
    /\ default_storage = <<>>
    /\ response = NoResponse
    /\ \E d \in DiagnosticInputs : diagnostics = {d}

\* PublicDiagnosticSerializer(d).data
SerializePublicDiagnostic ==
    \E d \in diagnostics :
        /\ response' = [op |-> "public_diagnostic", status |-> 200, user |-> None,
                        canteen |-> d.canteen,
                        body |-> PublicDiagnosticRepresentation(d)]
        /\ UNCHANGED <<canteens, diagnostics, purchases, teledeclarations, sector_table, cache,
                 default_storage>>

\* CentralKitchenDiagnosticSerializer(d).data, for a row whose mode is set
SerializeCentralKitchenDiagnostic ==
    \E d \in diagnostics :
        /\ d.central_kitchen_diagnostic_mode # NoMode
        /\ response' = [op |-> "central_kitchen_diagnostic", status |-> 200,
                        user |-> None, canteen |-> d.canteen,
                        body |-> CentralKitchenDiagnosticRepresentation(d)]
        /\ UNCHANGED <<canteens, diagnostics, purchases, teledeclarations, sector_table, cache,
                 default_storage>>

NextProjection ==
    \/ SerializePublicDiagnostic
    \/ SerializeCentralKitchenDiagnostic

SpecProjection == InitProjection /\ [][NextProjection]_vars

\* ------------------------------------------------- published canteens API
\* identity of a diagnostic row: one per (canteen, year)
DiagnosticYears == {PublicationYear - 1, PublicationYear}

\* DiagnosticFactory.create(canteen=, year=, ...)
DiagnosticFactoryCreate(d) ==
    /\ d.canteen \in CanteenIds
    /\ Cardinality(diagnostics) < MaxDiagnostics
    /\ ~\E e \in diagnostics : e.canteen = d.canteen /\ e.year = d.year
    /\ diagnostics' = diagnostics \cup {d}
    /\ response' = NoResponse
    /\ UNCHANGED <<canteens, purchases, teledeclarations, sector_table, cache,
                 default_storage>>

\* the values of test_percentage_values
FullValues ==
    [f \in RawFields \ {"value_meat_poultry_france_ht"} |->
        CASE f = "value_total_ht" -> 1200
          [] f = "value_bio_ht" -> 600
          [] f = "value_sustainable_ht" -> 300
          [] f = "value_meat_poultry_ht" -> 200
          [] f = "value_meat_poultry_egalim_ht" -> 100
          [] f = "value_fish_ht" -> 10
          [] f = "value_fish_egalim_ht" -> 8]

\* the values of test_remove_raw_values_when_missing_totals
MissingTotalsValues ==
    [f \in {"value_meat_poultry_egalim_ht", "value_meat_poultry_france_ht",
            "value_fish_egalim_ht"} |-> 100]

DiagnosticValueFixtures == {FullValues, MissingTotalsValues}

\* the satellite's central kitchens: canteens of production type CENTRAL
\* whose siret is the satellite's central_producer_siret
CentralKitchens(c) ==
    {k \in CanteenIds :
        /\ canteens[c].production_type = "ON_SITE_CENTRAL"
        /\ canteens[c].central_producer_siret # None
        /\ canteens[k].production_type = "CENTRAL"
        /\ canteens[k].siret = canteens[c].central_producer_siret}

\* the central kitchen's diagnostics whatever their mode
CentralKitchenDiagnosticsAnyMode(c) ==
    {d \in diagnostics : d.canteen \in CentralKitchens(c)}

\* the central kitchen's diagnostics meant for its satellites: mode set
CentralKitchenDiagnostics(c) ==
    {d \in diagnostics :
        /\ d.canteen \in CentralKitchens(c)
        /\ d.central_kitchen_diagnostic_mode # NoMode}

\* the public representation of canteen c
PublicCanteenRepresentation(c) ==
    [id |-> c,
     diagnostics |->
        {PublicDiagnosticRepresentation(d) : d \in {e \in diagnostics : e.canteen = c}},
     centralKitchenDiagnostics |->
        {CentralKitchenDiagnosticRepresentation(d) : d \in CentralKitchenDiagnostics(c)},
     canBeClaimed |-> canteens[c].managers = {}]

\* every canteen, draft or published
AllCanteens == CanteenIds

\* the queryset of the published endpoints
PublishedCanteens == {c \in CanteenIds : canteens[c].publication_status = "published"}

\* GET single_published_canteen
GetSinglePublishedCanteen(c) ==
    /\ response' = IF c \in PublishedCanteens
                   THEN [op |-> "single_published", status |-> 200, user |-> None,
                         canteen |-> c, body |-> PublicCanteenRepresentation(c)]
                   ELSE [op |-> "single_published", status |-> 404, user |-> None,
                         canteen |-> c, body |-> <<>>]
    /\ UNCHANGED <<canteens, diagnostics, purchases, teledeclarations, sector_table, cache,
                 default_storage>>

\* no min_portion_bio / min_portion_combined parameter
NoThreshold == <<0, 1>>

\* a null value counts for nothing in the combined share
ValueOrZero(d, name) == IF Defined(d, name) THEN d.values[name] ELSE 0

\* bio / total >= t, for t the fraction <<numerator, denominator>>
BioAtLeast(d, t) ==
    ValueOrZero(d, "value_bio_ht") * t[2] >= t[1] * d.values["value_total_ht"]

\* (bio + sustainable + externality-performance + other EGAlim) / total >= t
CombinedAtLeast(d, t) ==
    (ValueOrZero(d, "value_bio_ht") + ValueOrZero(d, "value_sustainable_ht")
     + ValueOrZero(d, "value_externality_performance_ht")
     + ValueOrZero(d, "value_egalim_others_ht")) * t[2]
        >= t[1] * d.values["value_total_ht"]

\* the minimums of the appro badge in a region: in percent
BadgeBioPercent(region) == IF region = Guadeloupe THEN 5 ELSE 20
BadgeCombinedPercent(region) == IF region = Guadeloupe THEN 20 ELSE 50

\* the diagnostics a canteen is judged on, whatever their year
PublicationDiagnosticsAnyYear(c) ==
    {d \in diagnostics :
        /\ Defined(d, "value_total_ht")
        /\ d.values["value_total_ht"] > 0
        /\ \/ d.canteen = c
           \/ /\ canteens[d.canteen].siret # None
              /\ canteens[d.canteen].siret = canteens[c].central_producer_siret}

\* the diagnostics a canteen is judged on: publication year, total > 0, its
\* own or the one of the canteen whose siret is its central_producer_siret
PublicationDiagnostics(c) ==
    {d \in diagnostics :
        /\ d.year = PublicationYear
        /\ Defined(d, "value_total_ht")
        /\ d.values["value_total_ht"] > 0
        /\ \/ d.canteen = c
           \/ /\ canteens[d.canteen].siret # None
              /\ canteens[d.canteen].siret = canteens[c].central_producer_siret}

\* the badge rule dropped as soon as an explicit threshold is given
MeetsBadgeUnlessExplicit(c, d, q) ==
    (q.badge = "appro" /\ q.min_portion_bio = NoThreshold
                       /\ q.min_portion_combined = NoThreshold)
        => /\ BioAtLeast(d, <<BadgeBioPercent(canteens[c].region), 100>>)
           /\ CombinedAtLeast(d, <<BadgeCombinedPercent(canteens[c].region), 100>>)

\* badge=appro: the rule of the canteen's region, on top of the thresholds
MeetsBadge(c, d, q) ==
    q.badge = "appro"
        => /\ BioAtLeast(d, <<BadgeBioPercent(canteens[c].region), 100>>)
           /\ CombinedAtLeast(d, <<BadgeCombinedPercent(canteens[c].region), 100>>)

\* the appro filters applied to the canteen's own diagnostics only
QualifyingDiagnosticsOwnOnly(c, q) ==
    {d \in PublicationDiagnostics(c) :
        /\ d.canteen = c
        /\ BioAtLeast(d, q.min_portion_bio)
        /\ CombinedAtLeast(d, q.min_portion_combined)
        /\ MeetsBadge(c, d, q)}

\* the diagnostics that let canteen c through the appro filters of q
QualifyingDiagnostics(c, q) ==
    {d \in PublicationDiagnostics(c) :
        /\ BioAtLeast(d, q.min_portion_bio)
        /\ CombinedAtLeast(d, q.min_portion_combined)
        /\ MeetsBadge(c, d, q)}

\* one of min_portion_bio, min_portion_combined, badge is supplied
HasApproFilter(q) ==
    \/ q.min_portion_bio # NoThreshold
    \/ q.min_portion_combined # NoThreshold
    \/ q.badge # NoParam

MeetsThreshold(c, q) == QualifyingDiagnostics(c, q) # {}

\* min_daily_meal_count / max_daily_meal_count: inclusive bounds
MeetsMealCount(c, q) ==
    /\ q.min_daily_meal_count # NoCount =>
         /\ canteens[c].daily_meal_count # NoCount
         /\ canteens[c].daily_meal_count >= q.min_daily_meal_count
    /\ q.max_daily_meal_count # NoCount =>
         /\ canteens[c].daily_meal_count # NoCount
         /\ canteens[c].daily_meal_count <= q.max_daily_meal_count

\* rows of a set of canteen ids by creation date descending (newest id first)
RECURSIVE NewestFirst(_)
NewestFirst(ids) ==
    IF ids = {} THEN <<>>
    ELSE LET m == CHOOSE x \in ids : \A y \in ids : y <= x
         IN <<m>> \o NewestFirst(ids \ {m})

\* the database's own placement of nulls: above every value
MayPrecedeDatabaseDefault(a, b, ordering) ==
    LET x == canteens[a].daily_meal_count
        y == canteens[b].daily_meal_count
    IN IF ordering = "daily_meal_count"
       THEN y = NoCount \/ (x # NoCount /\ x <= y)
       ELSE x = NoCount \/ (y # NoCount /\ x >= y)

\* canteen a may stand before canteen b: ascending with nulls first,
\* descending ("-" prefix) with nulls last
MayPrecede(a, b, ordering) ==
    LET x == canteens[a].daily_meal_count
        y == canteens[b].daily_meal_count
    IN IF ordering = "daily_meal_count"
       THEN x = NoCount \/ (y # NoCount /\ x <= y)
       ELSE y = NoCount \/ (x # NoCount /\ x >= y)

\* the orders the database may return the rows in; rows with equal keys
\* come in any order
OrderedResults(ids, ordering) ==
    IF ordering = NoParam THEN {NewestFirst(ids)}
    ELSE {r \in [1..Cardinality(ids) -> ids] :
            /\ \A i, j \in DOMAIN r : i # j => r[i] # r[j]
            /\ \A i, j \in DOMAIN r : i < j => MayPrecede(r[i], r[j], ordering)}

\* the filtered queryset of the list endpoint
FilterCanteens(base, q) ==
    {c \in base :
        /\ q.production_type # {} => canteens[c].production_type \in q.production_type
        /\ HasApproFilter(q) => MeetsThreshold(c, q)
        /\ MeetsMealCount(c, q)
        /\ q.department # NoParam => canteens[c].department = q.department
        /\ q.sectors # {} => canteens[c].sectors \cap q.sectors # {}}

\* the facets taken from the rows the page shows, sector filter applied
FacetBaseFiltered(q) == FilterCanteens(PublishedCanteens, q)

\* the rows the facets are taken from: every filter but the sector filter
FacetBase(q) == FilterCanteens(PublishedCanteens, [q EXCEPT !.sectors = {}])

\* GET published_canteens?...: the ordered results and the facets
GetPublishedCanteens(q) ==
    /\ \E results \in OrderedResults(FilterCanteens(PublishedCanteens, q), q.ordering) :
         response' =
            [op |-> "published_list", status |-> 200, user |-> None,
             canteen |-> None,
             body |-> [query |-> q,
                       results |-> results,
                       departments |->
                          {canteens[c].department : c \in FacetBase(q)} \ {NoDepartment},
                       sectors |-> UNION {canteens[c].sectors : c \in FacetBase(q)},
                       managementTypes |->
                          {canteens[c].management_type : c \in FacetBase(q)}
                              \ {NoManagementType}]]
    /\ UNCHANGED <<canteens, diagnostics, purchases, teledeclarations, sector_table, cache,
                 default_storage>>

\* the list request without any parameter
DefaultQuery ==
    [production_type |-> {},
     min_portion_bio |-> NoThreshold,
     min_portion_combined |-> NoThreshold,
     badge |-> NoParam,
     ordering |-> NoParam,
     min_daily_meal_count |-> NoCount,
     max_daily_meal_count |-> NoCount,
     department |-> NoParam,
     sectors |-> {}]

\* The canteens of the published-canteen tests: on site, central kitchen
\* with a siret, satellite naming a central producer siret
PublicCanteenAttrs ==
    [publication_status : PublicationStatus,
     production_type : ProductionType,
     siret : Sirets \cup {None},
     central_producer_siret : Sirets \cup {None},
     managers : {{1}},
     claimed_by : {None},
     has_been_claimed : {FALSE},
     daily_meal_count : {NoCount},
     department : {NoDepartment},
     sectors : {{}},
     management_type : {NoManagementType},
     region : {Metropole},
     deletion_date : {None},
     city_insee_code : {NoCity}]

CreatePublicCanteen ==
    \E attrs \in PublicCanteenAttrs :
        /\ \/ attrs.production_type = "ON_SITE"
              /\ attrs.siret = None /\ attrs.central_producer_siret = None
           \/ attrs.production_type = "CENTRAL"
              /\ attrs.siret # None /\ attrs.central_producer_siret = None
           \/ attrs.production_type = "ON_SITE_CENTRAL"
              /\ attrs.siret = None /\ attrs.central_producer_siret # None
        /\ CanteenFactoryCreate(attrs)

DiagnosticRows ==
    [canteen : 1..NCanteens,
     year : DiagnosticYears,
     central_kitchen_diagnostic_mode : CentralKitchenDiagnosticMode \cup {NoMode},
     has_waste_diagnostic : {FALSE},
     values : DiagnosticValueFixtures]

CreateDiagnostic == \E d \in DiagnosticRows : DiagnosticFactoryCreate(d)

GetSingle == \E c \in 1..(NCanteens + 1) : GetSinglePublishedCanteen(c)

\* the claim tests: factory, managers.add / clear, claim, un-claim and the
\* public read of canBeClaimed
NextClaim ==
    \/ CreateClaimCanteen
    \/ AddManager
    \/ ClearManagers
    \/ Claim
    \/ UndoClaim
    \/ GetSingle

SpecClaim == Init /\ [][NextClaim]_vars

\* the life cycle of the claim: canteens created unclaimed, with or without
\* managers, then only claim and un-claim requests
UnclaimedCanteenAttrs ==
    [publication_status : PublicationStatus,
     production_type : {"ON_SITE"},
     siret : {None},
     central_producer_siret : {None},
     managers : SUBSET Users,
     claimed_by : {None},
     has_been_claimed : {FALSE},
     daily_meal_count : {NoCount},
     department : {NoDepartment},
     sectors : {{}},
     management_type : {NoManagementType},
     region : {Metropole},
     deletion_date : {None},
     city_insee_code : {NoCity}]

CreateUnclaimedCanteen == \E attrs \in UnclaimedCanteenAttrs : CanteenFactoryCreate(attrs)

NextLifeCycle ==
    \/ CreateUnclaimedCanteen
    \/ Claim
    \/ UndoClaim

SpecLifeCycle == Init /\ [][NextLifeCycle]_vars

Queries ==
    {[DefaultQuery EXCEPT !.production_type = pt, !.min_portion_bio = bio] :
        pt \in {{}, {"CENTRAL"}, {"ON_SITE", "ON_SITE_CENTRAL"}},
        bio \in {NoThreshold, <<1, 5>>, <<3, 5>>}}

GetList == \E q \in Queries : GetPublishedCanteens(q)

Next ==
    \/ CreatePublicCanteen
    \/ CreateDiagnostic
    \/ GetSingle
    \/ GetList

Spec == Init /\ [][Next]_vars

\* ------------------------------------------------- ordering by meal count
MaxMealCount == 2

\* the canteens of test_order_meal_count / test_meal_count_filter
OrderingCanteenAttrs ==
    [publication_status : PublicationStatus,
     production_type : {"ON_SITE"},
     siret : {None},
     central_producer_siret : {None},
     managers : {{1}},
     claimed_by : {None},
     has_been_claimed : {FALSE},
     daily_meal_count : {NoCount} \cup (0..MaxMealCount),
     department : {NoDepartment},
     sectors : {{}},
     management_type : {NoManagementType},
     region : {Metropole},
     deletion_date : {None},
     city_insee_code : {NoCity}]

OrderingQueries ==
    {[DefaultQuery EXCEPT !.ordering = o, !.min_daily_meal_count = lo,
                          !.max_daily_meal_count = hi] :
        o \in {NoParam, "daily_meal_count", "-daily_meal_count"},
        lo \in {NoCount, 1},
        hi \in {NoCount, 1}}

CreateOrderingCanteen == \E attrs \in OrderingCanteenAttrs : CanteenFactoryCreate(attrs)

GetOrderedList == \E q \in OrderingQueries : GetPublishedCanteens(q)

NextOrdering ==
    \/ CreateOrderingCanteen
    \/ GetOrderedList

SpecOrdering == Init /\ [][NextOrdering]_vars

\* ------------------------------------------------------------- facets
NSectors == 2
\* SectorFactory.create(): sector ids
SectorIds == 1..NSectors
Departments == {"69", "75"}
ManagementTypes == {"conceded"}

\* the canteens of the department / sector / management type tests
FacetCanteenAttrs ==
    [publication_status : PublicationStatus,
     production_type : {"ON_SITE"},
     siret : {None},
     central_producer_siret : {None},
     managers : {{1}},
     claimed_by : {None},
     has_been_claimed : {FALSE},
     daily_meal_count : {NoCount},
     department : Departments \cup {NoDepartment},
     sectors : SUBSET SectorIds,
     management_type : ManagementTypes \cup {NoManagementType},
     region : {Metropole},
     deletion_date : {None},
     city_insee_code : {NoCity}]

FacetQueries ==
    {[DefaultQuery EXCEPT !.sectors = ss, !.department = dep] :
        ss \in SUBSET SectorIds, dep \in {NoParam, "69"}}

CreateFacetCanteen == \E attrs \in FacetCanteenAttrs : CanteenFactoryCreate(attrs)

GetFacetedList == \E q \in FacetQueries : GetPublishedCanteens(q)

NextFacets ==
    \/ CreateFacetCanteen
    \/ GetFacetedList

SpecFacets == Init /\ [][NextFacets]_vars

\* ------------------------------------------- appro thresholds and badge
\* the diagnostics of test_filter_appro_values, and one with a zero total
ApproValues(total, bio, sustainable) ==
    [f \in {"value_total_ht", "value_bio_ht", "value_sustainable_ht"} |->
        CASE f = "value_total_ht" -> total
          [] f = "value_bio_ht" -> bio
          [] f = "value_sustainable_ht" -> sustainable]

EgalimValues(externality, others) ==
    [f \in {"value_externality_performance_ht", "value_egalim_others_ht"} |->
        IF f = "value_externality_performance_ht" THEN externality ELSE others]

GoodValues == ApproValues(100, 30, 10) @@ EgalimValues(10, 10)
MediumValues == ApproValues(1000, 150, 350)
SustainableValues == [f \in {"value_total_ht"} |-> 100] @@ EgalimValues(40, 20)
GuadeloupeValues ==
    ApproValues(100, 5, 15) @@ [f \in {"value_egalim_others_ht"} |-> 0]
ZeroTotalValues == ApproValues(0, 30, 30) @@ EgalimValues(0, 0)

ApproValueFixtures ==
    {GoodValues, MediumValues, SustainableValues, GuadeloupeValues, ZeroTotalValues}

\* the canteens of test_filter_appro_values: on site, a central kitchen and
\* its satellite, in Auvergne-Rhone-Alpes or Guadeloupe
ApproCanteenAttrs ==
    [publication_status : PublicationStatus,
     production_type : ProductionType,
     siret : {None, 1},
     central_producer_siret : {None, 1},
     managers : {{1}},
     claimed_by : {None},
     has_been_claimed : {FALSE},
     daily_meal_count : {NoCount},
     department : {NoDepartment},
     sectors : {{}},
     management_type : {NoManagementType},
     region : {Metropole, Guadeloupe},
     deletion_date : {None},
     city_insee_code : {NoCity}]

CreateApproCanteen ==
    \E attrs \in ApproCanteenAttrs :
        /\ \/ attrs.production_type = "ON_SITE"
              /\ attrs.siret = None /\ attrs.central_producer_siret = None
           \/ attrs.production_type = "CENTRAL"
              /\ attrs.siret # None /\ attrs.central_producer_siret = None
           \/ attrs.production_type = "ON_SITE_CENTRAL"
              /\ attrs.siret = None /\ attrs.central_producer_siret # None
        /\ CanteenFactoryCreate(attrs)

ApproDiagnosticRows ==
    [canteen : 1..NCanteens,
     year : DiagnosticYears,
     central_kitchen_diagnostic_mode : {NoMode},
     has_waste_diagnostic : {FALSE},
     values : ApproValueFixtures]

CreateApproDiagnostic == \E d \in ApproDiagnosticRows : DiagnosticFactoryCreate(d)

\* requests with at most one explicit threshold, with and without the badge
ApproQueries ==
    {q \in {[DefaultQuery EXCEPT !.min_portion_bio = bio,
                                 !.min_portion_combined = combined,
                                 !.badge = badge] :
                bio \in {NoThreshold, <<1, 5>>},
                combined \in {NoThreshold, <<1, 100>>, <<1, 2>>},
                badge \in {NoParam, "appro"}} :
        q.min_portion_bio = NoThreshold \/ q.min_portion_combined = NoThreshold}

GetApproList == \E q \in ApproQueries : GetPublishedCanteens(q)

NextAppro ==
    \/ CreateApproCanteen
    \/ CreateApproDiagnostic
    \/ GetApproList

SpecAppro == Init /\ [][NextAppro]_vars

\* ------------------------------------------------- open-data export job
MaxTeledeclarations == 2

\* Sector.objects.get(id=sector_id).name
SectorName(id) == sector_table[id]
\* a canteen without sector: the NaN of its single row
NoSector == None

\* soft deletion date and the city codes of the registry
DeletedOn == 20230101
Cities == {"69123"}
Epcis == {"200046977"}
NoEpci == "None"

\* CAMPAIGN_DATES, dates written yyyymmdd
CAMPAIGN_DATES ==
    (2021 :> [start_date |-> 20220716, end_date |-> 20221205])
    @@ (2022 :> [start_date |-> 20230213, end_date |-> 20230630])

\* the elements of a set of integers in ascending order
RECURSIVE Ascending(_)
Ascending(ids) ==
    IF ids = {} THEN <<>>
    ELSE LET m == CHOOSE x \in ids : \A y \in ids : x <= y
         IN <<m>> \o Ascending(ids \ {m})

RECURSIVE Concat(_)
Concat(seqs) == IF seqs = <<>> THEN <<>> ELSE Head(seqs) \o Concat(Tail(seqs))

\* requests.get("https://geo.api.gouv.fr/communes"): a list of communes, each
\* with or without codeEpci, or a failure
LookupFailures == {"http_error", "connection_error", "timeout"}
Lookups ==
    {[kind |-> "ok", communes |-> m] : m \in UNION {[cs -> Epcis] : cs \in SUBSET Cities}}
    \cup {[kind |-> k, communes |-> <<>>] : k \in LookupFailures}

\* map_epcis_communes: the dict commune code -> EPCI code; None when
\* raise_for_status raises HTTPError; any other request failure is not caught
map_epcis_communes(lookup) ==
    CASE lookup.kind = "ok" ->
            [exception |-> NoException, ok |-> TRUE, epcis |-> lookup.communes]
      [] lookup.kind = "http_error" ->
            [exception |-> NoException, ok |-> FALSE, epcis |-> <<>>]
      [] lookup.kind = "connection_error" ->
            [exception |-> "requests.exceptions.ConnectionError", ok |-> FALSE,
             epcis |-> <<>>]
      [] lookup.kind = "timeout" ->
            [exception |-> "requests.exceptions.Timeout", ok |-> FALSE, epcis |-> <<>>]

\* fetch_epci(code, epcis): with epcis = None (ok = FALSE) a non-empty code
\* reaches epcis.keys() and raises AttributeError
fetch_epci(code, mapped) ==
    IF code = NoCity THEN [exception |-> NoException, epci |-> NoEpci]
    ELSE IF ~mapped.ok THEN [exception |-> "AttributeError", epci |-> NoEpci]
    ELSE IF code \in DOMAIN mapped.epcis
         THEN [exception |-> NoException, epci |-> mapped.epcis[code]]
    ELSE [exception |-> NoException, epci |-> NoEpci]

\* ETL.transform_geo_data on the rows of the dataframe: the epci column is
\* looked up when the frame has a city_insee_code column, else set to None
transform_geo_data(rows, hasCityColumn, lookup) ==
    IF ~hasCityColumn
    THEN [exception |-> NoException,
          rows |-> [i \in DOMAIN rows |-> [rows[i] EXCEPT !.epci = NoEpci]]]
    ELSE LET mapped == map_epcis_communes(lookup)
             fetched == [i \in DOMAIN rows |-> fetch_epci(rows[i].city_insee_code, mapped)]
             raised == {i \in DOMAIN rows : fetched[i].exception # NoException}
         IN IF mapped.exception # NoException
            THEN [exception |-> mapped.exception, rows |-> rows]
            ELSE IF raised # {}
            THEN [exception |-> fetched[CHOOSE i \in raised : \A j \in raised : i <= j].exception,
                  rows |-> rows]
            ELSE [exception |-> NoException,
                  rows |-> [i \in DOMAIN rows |-> [rows[i] EXCEPT !.epci = fetched[i].epci]]]

\* ETL._clean_dataset: drop_duplicates(subset=["id"]), the first row kept
RECURSIVE DropDuplicates(_, _)
DropDuplicates(rows, seen) ==
    IF rows = <<>> THEN <<>>
    ELSE IF Head(rows).id \in seen THEN DropDuplicates(Tail(rows), seen)
    ELSE <<Head(rows)>> \o DropDuplicates(Tail(rows), seen \cup {Head(rows).id})

\* the cleaning without drop_duplicates
_clean_dataset_keeping_duplicates(rows) == rows

_clean_dataset(rows) == DropDuplicates(rows, {})

\* camelize(SectorSerializer(Sector.objects.get(id=sector_id)).data)
SerializedSector(sector_id) == [id |-> sector_id, name |-> SectorName(sector_id)]

\* fetch_sector(sector_id) on the cache content cached: the sector returned
\* ("" for NaN, here the empty list) and the cache content left; a cached
\* entry is returned as it is, a missing one is read from the table and set
fetch_sector(sector_id, cached) ==
    IF sector_id = NoSector THEN [sector |-> <<>>, cache |-> cached]
    ELSE IF sector_id \in DOMAIN cached
    THEN [sector |-> <<cached[sector_id]>>, cache |-> cached]
    ELSE [sector |-> <<SerializedSector(sector_id)>>,
          cache |-> cached @@ (sector_id :> SerializedSector(sector_id))]

\* df["sectors"].apply(fetch_sector): row after row, on the cache the
\* earlier rows left
RECURSIVE FetchSectors(_, _)
FetchSectors(rows, cached) ==
    IF rows = <<>> THEN [sectors |-> <<>>, cache |-> cached]
    ELSE LET first == fetch_sector(Head(rows).sectors, cached)
             rest == FetchSectors(Tail(rows), first.cache)
         IN [sectors |-> <<first.sector>> \o rest.sectors, cache |-> rest.cache]

\* ETL._extract_sectors: the sectors of all the rows of a canteen gathered
\* in a list, merged back on id
_extract_sectors(rows) ==
    LET fetched == FetchSectors(rows, cache)
    IN [rows |-> [i \in DOMAIN rows |->
                    [rows[i] EXCEPT !.sectors =
                        Concat([j \in DOMAIN rows |->
                                  IF rows[j].id = rows[i].id THEN fetched.sectors[j]
                                  ELSE <<>>])]],
        cache |-> fetched.cache]

\* map_canteens_td(year): the canteens with a submitted teledeclaration of
\* the campaign, and the satellites it declares
map_canteens_td(year) ==
    LET tds == {t \in teledeclarations :
                  /\ t.year = year
                  /\ t.creation_date >= CAMPAIGN_DATES[year].start_date
                  /\ t.creation_date <= CAMPAIGN_DATES[year].end_date
                  /\ t.status = "SUBMITTED"}
    IN {t.canteen_id : t \in tds} \cup UNION {t.satellites : t \in tds}

\* the registry kept open to the police / army canteens
ExcludedFromRegistryDeletedOnly(c) == canteens[c].deletion_date # None

\* exclude_filter of the registry: sector 22 among the sectors, or deleted
ExcludedFromRegistry(c) ==
    \/ PoliceSectorId \in canteens[c].sectors
    \/ canteens[c].deletion_date # None

\* canteens.values(*columns): one row per canteen and sector
CanteenValues(c) ==
    LET ss == IF canteens[c].sectors = {} THEN <<NoSector>>
              ELSE Ascending(canteens[c].sectors)
    IN [i \in DOMAIN ss |->
            [id |-> c, sectors |-> ss[i],
             city_insee_code |-> canteens[c].city_insee_code,
             active_on_ma_cantine |-> canteens[c].managers # {},
             epci |-> NoEpci,
             declaration_donnees_2021 |-> FALSE]]

\* ETL_CANTEEN.extract_dataset: the dataframe, the exception that escaped
\* and the cache content the sector lookups leave
ETL_CANTEEN_extract_dataset(lookup) ==
    LET ids == Ascending({c \in CanteenIds : ~ExcludedFromRegistry(c)})
        values == Concat([i \in DOMAIN ids |-> CanteenValues(ids[i])])
        extracted == _extract_sectors(values)
        cleaned == _clean_dataset(extracted.rows)
        geo == transform_geo_data(cleaned, TRUE, lookup)
        participated == map_canteens_td(2021)
    IN IF ids = <<>> THEN [exception |-> NoException, rows |-> <<>>, cache |-> cache]
       ELSE IF geo.exception # NoException
       THEN [exception |-> geo.exception, rows |-> geo.rows, cache |-> extracted.cache]
       ELSE [exception |-> NoException,
             rows |-> [i \in DOMAIN geo.rows |->
                         [geo.rows[i] EXCEPT !.declaration_donnees_2021 =
                                                 geo.rows[i].id \in participated]],
             cache |-> extracted.cache]

\* ETL_TD._filter_by_sectors: the canteens with the police / army sector name
canteens_id_to_filter ==
    {c \in CanteenIds : \E x \in canteens[c].sectors : SectorName(x) = PoliceSectorName}

\* ETL_TD.extract_dataset for a campaign year; the canteen columns of the
\* campaign frame are prefixed (canteen_department, canteen_region), it has
\* no city_insee_code column and transform_geo_data sets epci to None
ETL_TD_extract_dataset(year) ==
    LET tds == IF year \in DOMAIN CAMPAIGN_DATES
               THEN {t \in teledeclarations :
                       /\ t.year = year
                       /\ t.creation_date >= CAMPAIGN_DATES[year].start_date
                       /\ t.creation_date <= CAMPAIGN_DATES[year].end_date
                       /\ t.status = "SUBMITTED"
                       /\ t.canteen_id # None}
               ELSE {}
        ids == Ascending({t.id : t \in tds})
        values == [i \in DOMAIN ids |->
                     LET t == CHOOSE x \in tds : x.id = ids[i]
                     IN [id |-> t.id, canteen_id |-> t.canteen_id, year |-> t.year,
                         epci |-> NoEpci]]
        cleaned == _clean_dataset(values)
        filtered == SelectSeq(cleaned, LAMBDA r : r.canteen_id \notin canteens_id_to_filter)
    IN IF tds = {} THEN [exception |-> NoException, rows |-> <<>>]
       ELSE transform_geo_data(filtered, FALSE, [kind |-> "ok", communes |-> <<>>])

\* the canteens of the registry: with or without the police sector, soft
\* deleted or not, with or without city code
ExportCanteenAttrs ==
    [publication_status : {"published"},
     production_type : {"ON_SITE"},
     siret : {None},
     central_producer_siret : {None},
     managers : {{1}},
     claimed_by : {None},
     has_been_claimed : {FALSE},
     daily_meal_count : {NoCount},
     department : {NoDepartment},
     sectors : {{}, {SchoolSectorId}, {SchoolSectorId, CompanySectorId},
                {PoliceSectorId}, {SchoolSectorId, PoliceSectorId}},
     management_type : {NoManagementType},
     region : {Metropole},
     deletion_date : {None, DeletedOn},
     city_insee_code : Cities \cup {NoCity}]

\* a teledeclaration of the 2021 campaign, submitted for a canteen, and the
\* rows that differ from it in one column
SubmittedTeledeclaration ==
    [canteen_id |-> 1, year |-> 2021, creation_date |-> 20220801,
     status |-> "SUBMITTED", satellites |-> {}]

TeledeclarationRows ==
    {[SubmittedTeledeclaration EXCEPT !.canteen_id = c] : c \in (1..NCanteens) \cup {None}}
    \cup {[SubmittedTeledeclaration EXCEPT !.canteen_id = c, !.creation_date = 20230101] :
              c \in 1..NCanteens}
    \cup {[SubmittedTeledeclaration EXCEPT !.canteen_id = c, !.status = "CANCELLED"] :
              c \in 1..NCanteens}
    \cup {[SubmittedTeledeclaration EXCEPT !.satellites = {NCanteens}]}

CreateExportCanteen == \E attrs \in ExportCanteenAttrs : CanteenFactoryCreate(attrs)

\* TeledeclarationFactory.create(...): a new row with the next primary key
CreateTeledeclaration ==
    \E td \in TeledeclarationRows :
        /\ Cardinality(teledeclarations) < MaxTeledeclarations
        /\ td.canteen_id # None => td.canteen_id \in CanteenIds
        /\ teledeclarations' = teledeclarations \cup
              {[id |-> Cardinality(teledeclarations) + 1,
                canteen_id |-> td.canteen_id, year |-> td.year,
                creation_date |-> td.creation_date, status |-> td.status,
                satellites |-> td.satellites]}
        /\ response' = NoResponse
        /\ UNCHANGED <<canteens, diagnostics, purchases, sector_table, cache,
                     default_storage>>

ExtractRegistry ==
    \E lookup \in Lookups :
        LET extracted == ETL_CANTEEN_extract_dataset(lookup)
        IN /\ response' = [op |-> "extract_registry", status |-> 0, user |-> None,
                           canteen |-> None,
                           body |-> [lookup |-> lookup.kind,
                                     exception |-> extracted.exception,
                                     rows |-> extracted.rows]]
           /\ cache' = extracted.cache
           /\ UNCHANGED <<canteens, diagnostics, purchases, teledeclarations,
                          sector_table, default_storage>>

ExtractCampaign ==
    \E year \in {2020, 2021} :
        /\ response' = [op |-> "extract_campaign", status |-> 0, user |-> None,
                        canteen |-> None,
                        body |-> [lookup |-> "none"] @@ ETL_TD_extract_dataset(year)]
        /\ UNCHANGED <<canteens, diagnostics, purchases, teledeclarations, sector_table, cache,
                 default_storage>>

NextExport ==
    \/ CreateExportCanteen
    \/ CreateTeledeclaration
    \/ ExtractRegistry
    \/ ExtractCampaign

SpecExport == Init /\ [][NextExport]_vars

\* ------------------------------------- export job: staging and promotion
RegistryDataset == "registre_cantines"

\* str() of a cell of the dataframe
BoolCell(b) == IF b THEN "True" ELSE "False"

SectorCell(sector) ==
    "{'id': " \o ToString(sector.id) \o ", 'name': '" \o sector.name \o "'}"

SectorsCell(sectors) ==
    "[" \o Join([k \in DOMAIN sectors |-> SectorCell(sectors[k])]) \o "]"

\* na_rep="": a missing value is written as the empty string
NaCell(value, missing) == IF value = missing THEN "" ELSE value

\* df.to_csv(file, sep=";", index=False, na_rep=""): the header line, then
\* one line per row
RECURSIVE CsvLines(_)
CsvLines(rows) ==
    IF rows = <<>> THEN ""
    ELSE ToString(Head(rows).id)
         \o ";" \o NaCell(Head(rows).city_insee_code, NoCity)
         \o ";" \o SectorsCell(Head(rows).sectors)
         \o ";" \o BoolCell(Head(rows).active_on_ma_cantine)
         \o ";" \o NaCell(Head(rows).epci, NoEpci)
         \o ";" \o BoolCell(Head(rows).declaration_donnees_2021)
         \o "\n" \o CsvLines(Tail(rows))

to_csv(rows) ==
    "id;city_insee_code;sectors;active_on_ma_cantine;epci;declaration_donnees_2021\n"
    \o CsvLines(rows)

ToValidateFile(dataset_name) == "open_data/" \o dataset_name \o "_to_validate.csv"
ValidatedFile(dataset_name) == "open_data/" \o dataset_name \o ".csv"

\* default_storage.open(filename, "w") then file.write(content): the file
\* of that name is replaced
StorageWrite(storage, filename, content) ==
    [f \in DOMAIN storage \cup {filename} |->
        IF f = filename THEN content ELSE storage[f]]

\* ETL.export_dataset(stage) on the dataframe df (df.assigned is false while
\* self.df is still None: the file is opened, then None.to_csv raises)
export_dataset(df, dataset_name, stage, storage) ==
    LET filename == IF stage = "to_validate" THEN ToValidateFile(dataset_name)
                    ELSE ValidatedFile(dataset_name)
    IN IF stage \notin {"to_validate", "validated"}
       THEN [exception |-> NoException, storage |-> storage]
       ELSE IF ~df.assigned
       THEN [exception |-> "AttributeError",
             storage |-> StorageWrite(storage, filename, "")]
       ELSE [exception |-> NoException,
             storage |-> StorageWrite(storage, filename, to_csv(df.rows))]

\* the report of the validation service for the staged file
Reports == {[errors |-> <<>>], [errors |-> <<"invalid-column">>]}

\* a validation that accepts every report
is_valid_ignoring_errors(dataset_name, report) == [value |-> 1, logged |-> <<>>]

\* ETL.is_valid: 0 after two logger.error calls when the report has errors,
\* else 1
is_valid(dataset_name, report) ==
    IF Len(report.errors) > 0
    THEN [value |-> 0,
          logged |-> <<"The dataset " \o dataset_name \o " extraction has errors : ",
                       report.errors>>]
    ELSE [value |-> 1, logged |-> <<>>]

\* the canteens of the job specification: in the registry, without city code
JobCanteenAttrs ==
    {a \in ExportCanteenAttrs : /\ a.deletion_date = None
                                /\ PoliceSectorId \notin a.sectors
                                /\ a.city_insee_code = NoCity}

CreateJobCanteen == \E attrs \in JobCanteenAttrs : CanteenFactoryCreate(attrs)

\* the names a sector is given over time
SectorNames == (SchoolSectorId :> {"Scolaire", "Enseignement"})

\* a sector is renamed in the Sector table
UpdateSector ==
    \E id \in DOMAIN SectorNames :
        \E name \in SectorNames[id] \ {sector_table[id]} :
            /\ sector_table' = [sector_table EXCEPT ![id] = name]
            /\ response' = NoResponse
            /\ UNCHANGED <<canteens, diagnostics, purchases, teledeclarations, cache,
                           default_storage>>

\* cache.set(..., timeout=3600): an entry leaves the cache once its timeout
\* has elapsed
CacheExpire ==
    \E id \in DOMAIN cache :
        /\ cache' = [k \in DOMAIN cache \ {id} |-> cache[k]]
        /\ UNCHANGED <<canteens, diagnostics, purchases, teledeclarations, sector_table,
                       default_storage, response>>

\* a call of fetch_sector(sector_id)
FetchSector ==
    \E sector_id \in {NoSector, SchoolSectorId, CompanySectorId} :
        LET fetched == fetch_sector(sector_id, cache)
        IN /\ response' = [op |-> "fetch_sector", status |-> 0, user |-> None,
                           canteen |-> None,
                           body |-> [sector_id |-> sector_id, sector |-> fetched.sector]]
           /\ cache' = fetched.cache
           /\ UNCHANGED <<canteens, diagnostics, purchases, teledeclarations,
                          sector_table, default_storage>>

\* the outcomes of the commune lookup during a run of the job
JobLookups == {l \in Lookups : l.communes = <<>> /\ l.kind \in {"ok", "connection_error"}}

\* one run of the registry export job: extract, write the staging file,
\* validate it, and promote it to the final name when it is valid
RunJob ==
    \E lookup \in JobLookups, report \in Reports :
        LET extracted == ETL_CANTEEN_extract_dataset(lookup)
            df == [assigned |-> \E c \in CanteenIds : ~ExcludedFromRegistry(c),
                   rows |-> extracted.rows]
            staged == export_dataset(df, RegistryDataset, "to_validate", default_storage)
            checked == is_valid(RegistryDataset, report)
            promoted == export_dataset(df, RegistryDataset, "validated", staged.storage)
            crashed(exception, storage) ==
                /\ default_storage' = storage
                /\ response' = [op |-> "run_job", status |-> 0, user |-> None,
                                canteen |-> None,
                                body |-> [lookup |-> lookup.kind,
                                          exception |-> exception,
                                          validated |-> FALSE,
                                          report |-> <<>>,
                                          is_valid |-> NoCount,
                                          logged |-> <<>>,
                                          rows |-> extracted.rows]]
            completed(exception, storage) ==
                /\ default_storage' = storage
                /\ response' = [op |-> "run_job", status |-> 0, user |-> None,
                                canteen |-> None,
                                body |-> [lookup |-> lookup.kind,
                                          exception |-> exception,
                                          validated |-> TRUE,
                                          report |-> report.errors,
                                          is_valid |-> checked.value,
                                          logged |-> checked.logged,
                                          rows |-> extracted.rows]]
        IN /\ cache' = extracted.cache
           /\ IF extracted.exception # NoException
              THEN crashed(extracted.exception, default_storage)
              ELSE IF staged.exception # NoException
              THEN crashed(staged.exception, staged.storage)
              ELSE IF checked.value = 0
              THEN completed(NoException, staged.storage)
              ELSE completed(promoted.exception, promoted.storage)
           /\ UNCHANGED <<canteens, diagnostics, purchases, teledeclarations,
                          sector_table>>

NextJob ==
    \/ CreateJobCanteen
    \/ UpdateSector
    \/ CacheExpire
    \/ FetchSector
    \/ RunJob

SpecJob == Init /\ [][NextJob]_vars

\* ------------------------------------------------------ projection claims
\* the one diagnostic the projection specification serializes
TheDiagnostic == CHOOSE d \in diagnostics : TRUE

\* C2: no serialized diagnostic, own or central-kitchen, carries a raw
\* monetary key, also when the subtotal a share is taken of is missing.
C2_NoRawValueInPayload ==
    response.op \in {"public_diagnostic", "central_kitchen_diagnostic"} =>
        DOMAIN response.body
            \cap {"valueTotalHt", "valueBioHt", "valueSustainableHt",
                  "valueMeatPoultryHt", "valueMeatPoultryEgalimHt",
                  "valueMeatPoultryFranceHt", "valueFishHt", "valueFishEgalimHt"}
          = {}

C2_Witness ==
    /\ response.op = "public_diagnostic"
    /\ DOMAIN TheDiagnostic.values
         = {"value_meat_poultry_egalim_ht", "value_meat_poultry_france_ht",
            "value_fish_egalim_ht"}
    /\ "valueMeatPoultryEgalimHt" \notin DOMAIN response.body
    /\ "valueFishEgalimHt" \notin DOMAIN response.body
    /\ "year" \in DOMAIN response.body

\* numerator, percentage key and denominator of every raw field
C3_Shares ==
    {<<"value_total_ht", "percentageValueTotalHt", "value_total_ht">>,
     <<"value_bio_ht", "percentageValueBioHt", "value_total_ht">>,
     <<"value_sustainable_ht", "percentageValueSustainableHt", "value_total_ht">>,
     <<"value_meat_poultry_ht", "percentageValueMeatPoultryHt", "value_total_ht">>,
     <<"value_fish_ht", "percentageValueFishHt", "value_total_ht">>,
     <<"value_meat_poultry_egalim_ht", "percentageValueMeatPoultryEgalimHt",
       "value_meat_poultry_ht">>,
     <<"value_meat_poultry_france_ht", "percentageValueMeatPoultryFranceHt",
       "value_meat_poultry_ht">>,
     <<"value_fish_egalim_ht", "percentageValueFishEgalimHt", "value_fish_ht">>}

\* C3: in the public projection of a diagnostic, percentage<Field> is present
\* exactly when the numerator is defined and the denominator is defined and
\* > 0, and then equals numerator / denominator, the denominator being
\* value_total_ht, or the meat / fish subtotal for the parts of that subtotal;
\* otherwise the key is absent.
C3_PercentageProjection ==
    response.op = "public_diagnostic" =>
        LET v == TheDiagnostic.values
        IN \A sh \in C3_Shares :
            LET present == sh[2] \in DOMAIN response.body
                num == sh[1]
                den == sh[3]
            IN /\ present <=> (num \in DOMAIN v /\ den \in DOMAIN v /\ v[den] > 0)
               /\ present =>
                    /\ response.body[sh[2]][2] > 0
                    /\ response.body[sh[2]][1] * v[den] = v[num] * response.body[sh[2]][2]

C3_Witness ==
    /\ response.op = "public_diagnostic"
    /\ LET v == TheDiagnostic.values
       IN /\ DOMAIN v = RawFields \ {"value_sustainable_ht"}
          /\ v["value_total_ht"] = 1 /\ v["value_meat_poultry_ht"] = 2
          /\ v["value_meat_poultry_egalim_ht"] = 1
          /\ v["value_fish_ht"] = 0 /\ v["value_fish_egalim_ht"] = 1
    /\ response.body["percentageValueMeatPoultryEgalimHt"] = <<1, 2>>
    /\ "percentageValueFishEgalimHt" \notin DOMAIN response.body
    /\ "percentageValueSustainableHt" \notin DOMAIN response.body

\* ------------------------------------------------- published canteens claims
\* C1: the published-canteen list, under every filter, holds only canteens
\* whose publication_status is published, and fetching a single canteen that
\* is draft through the published endpoint answers 404.
C1_OnlyPublishedExposed ==
    /\ response.op = "published_list" =>
         \A i \in DOMAIN response.body.results :
             /\ response.body.results[i] \in CanteenIds
             /\ canteens[response.body.results[i]].publication_status = "published"
    /\ (/\ response.op = "single_published"
        /\ response.canteen \in CanteenIds
        /\ canteens[response.canteen].publication_status # "published")
           => response.status = 404

\* a published satellite is listed on the strength of its draft central
\* kitchen's diagnostic, and the draft kitchen itself is not listed
C1_Witness ==
    /\ response.op = "published_list"
    /\ response.body.query.min_portion_bio = <<1, 5>>
    /\ Len(response.body.results) = 1
    /\ \E k \in CanteenIds :
         /\ canteens[k].publication_status = "draft"
         /\ canteens[k].production_type = "CENTRAL"
         /\ \E d \in diagnostics : d.canteen = k /\ d.year = PublicationYear
                                   /\ d.values = FullValues
         /\ canteens[response.body.results[1]].central_producer_siret = canteens[k].siret

\* the rows C4 speaks of: diagnostics of a central kitchen whose siret is the
\* satellite's central_producer_siret, with a mode set
C4_SharedDiagnostics(c) ==
    {d \in diagnostics :
        /\ canteens[d.canteen].production_type = "CENTRAL"
        /\ canteens[d.canteen].siret = canteens[c].central_producer_siret
        /\ d.central_kitchen_diagnostic_mode \in {"APPRO", "ALL"}}

\* the percentage keys that can be derived from a row
C4_Derivable(d) ==
    {sh[2] : sh \in {x \in C3_Shares :
                        /\ x[1] \in DOMAIN d.values
                        /\ x[3] \in DOMAIN d.values
                        /\ d.values[x[3]] > 0}}

C4_ApproKeys ==
    {"percentageValueTotalHt", "percentageValueBioHt", "percentageValueSustainableHt"}

\* payload r is what row d may show in its mode
C4_Shows(r, d) ==
    /\ r.year = d.year
    /\ IF d.central_kitchen_diagnostic_mode = "APPRO"
       THEN DOMAIN r = {"year"} \cup (C4_Derivable(d) \cap C4_ApproKeys)
       ELSE DOMAIN r = {"year", "hasWasteDiagnostic"} \cup C4_Derivable(d)

\* C4: the payload of a published satellite whose central_producer_siret is a
\* central kitchen's siret lists exactly that kitchen's diagnostics whose mode
\* is set: none for mode None, total/bio/sustainable percentages only for
\* APPRO, every percentage plus hasWasteDiagnostic for ALL.
C4_CentralKitchenDiagnosticsByMode ==
    (/\ response.op = "single_published"
     /\ response.status = 200
     /\ canteens[response.canteen].production_type = "ON_SITE_CENTRAL"
     /\ \E k \in CanteenIds :
          /\ canteens[k].production_type = "CENTRAL"
          /\ canteens[k].siret = canteens[response.canteen].central_producer_siret)
        => LET shared == C4_SharedDiagnostics(response.canteen)
               shown == response.body.centralKitchenDiagnostics
           IN /\ \A d \in shared : \E r \in shown : C4_Shows(r, d)
              /\ \A r \in shown : \E d \in shared : C4_Shows(r, d)

C4_Witness ==
    /\ response.op = "single_published"
    /\ response.status = 200
    /\ Cardinality(response.body.centralKitchenDiagnostics) = 1
    /\ \E d, e \in diagnostics :
         /\ d.canteen = e.canteen
         /\ canteens[d.canteen].siret = canteens[response.canteen].central_producer_siret
         /\ d.central_kitchen_diagnostic_mode = NoMode
         /\ e.central_kitchen_diagnostic_mode = APPRO
         /\ e.values = FullValues
    /\ \E r \in response.body.centralKitchenDiagnostics :
         /\ "percentageValueBioHt" \in DOMAIN r
         /\ "percentageValueFishEgalimHt" \notin DOMAIN r
         /\ "hasWasteDiagnostic" \notin DOMAIN r

\* ------------------------------------------------- purchase summary claims
SummaryOk == response.op = "summary" /\ response.status = 200

\* the purchases table without one copy of row p
Without(p) == purchases (-) SetToBag({p})

\* the summary the handler answers for the same request once row p is gone
SummaryWithout(p) ==
    PurchasesSummary(Without(p), response.canteen, response.body.year)

\* a sum of prices counted price by price: v times the number of rows of price v
RECURSIVE PriceTimesCount(_, _)
PriceTimesCount(rows, v) ==
    IF v = 0 THEN 0
    ELSE v * BagCardinality(Filter(rows, LAMBDA p : p.price_ht = v))
         + PriceTimesCount(rows, v - 1)

\* the rows of the requested canteen and year
Requested(p) == p.canteen = response.canteen /\ p.year = response.body.year

CarriesBio(p) == BIO \in p.characteristics \/ CONVERSION_BIO \in p.characteristics

OtherCategories == {"sustainable", "hve", "rouge", "aocAopIgp"}
Categories == {"bio"} \cup OtherCategories

\* C5: in a yearly summary, the bio total is the sum of the prices of the
\* year's purchases carrying BIO or CONVERSION_BIO, and such a purchase adds
\* its price to bio and nothing to sustainable, hve, rouge or aocAopIgp,
\* whatever else it carries.
C5_BioCountsOnlyAsBio ==
    SummaryOk =>
        /\ response.body.bio =
             PriceTimesCount(Filter(purchases, LAMBDA p : Requested(p) /\ CarriesBio(p)),
                             MaxPrice)
        /\ \A p \in DOMAIN purchases :
             (Requested(p) /\ CarriesBio(p)) =>
                 /\ response.body.bio = SummaryWithout(p).bio + p.price_ht
                 /\ \A k \in OtherCategories : response.body[k] = SummaryWithout(p)[k]

C5_Witness ==
    /\ SummaryOk
    /\ \E p \in DOMAIN purchases :
         /\ Requested(p)
         /\ p.characteristics = {BIO, LABEL_ROUGE}
         /\ response.body.bio = p.price_ht
         /\ response.body.rouge = 0

\* C6: in a yearly summary every purchase adds its price to a category total
\* at most once; a non-bio purchase carrying both AOCAOP and IGP adds its
\* price exactly once to aocAopIgp.
C6_PriceAddedAtMostOnce ==
    SummaryOk =>
        \A p \in DOMAIN purchases :
            Requested(p) =>
                /\ \A k \in Categories \cup {"total"} :
                     response.body[k] - SummaryWithout(p)[k] \in {0, p.price_ht}
                /\ ({AOCAOP, IGP} \subseteq p.characteristics /\ ~CarriesBio(p))
                     => response.body.aocAopIgp = SummaryWithout(p).aocAopIgp + p.price_ht

C6_Witness ==
    /\ SummaryOk
    /\ \E p \in DOMAIN purchases :
         /\ Requested(p)
         /\ p.characteristics = {AOCAOP, IGP}
         /\ BagCardinality(purchases) = 1
         /\ response.body.aocAopIgp = p.price_ht

\* C7: the total of the summary of canteen c and year y is the sum of
\* price_ht over exactly the purchases of c dated in y, whatever their
\* characteristics; a purchase of another year or another canteen adds to no
\* figure of the summary.
C7_TotalOverCanteenAndYear ==
    SummaryOk =>
        /\ response.body.total =
             PriceTimesCount(Filter(purchases, LAMBDA p : Requested(p)), MaxPrice)
        /\ \A p \in DOMAIN purchases :
             ~Requested(p) => SummaryWithout(p) = response.body

C7_Witness ==
    /\ SummaryOk
    /\ \E p, q \in DOMAIN purchases :
         /\ Requested(p) /\ p.characteristics = {}
         /\ q.canteen = p.canteen /\ q.year # p.year
         /\ response.body.total = p.price_ht

\* C8 as stated: sustainable sums the non-bio purchases carrying LABEL_ROUGE,
\* AOC/AOP, IGP or STG only, so that HVE and PECHE_DURABLE purchases stay out.
C8_SustainableOnlyFourLabels ==
    SummaryOk =>
        response.body.sustainable =
            PriceTimesCount(
                Filter(purchases,
                       LAMBDA p : Requested(p) /\ ~CarriesBio(p)
                                  /\ HasAny(p, SustainableLabelsSpec)),
                MaxPrice)

\* C8 amended: sustainable sums the non-bio purchases of the year carrying at
\* least one of HVE, LABEL_ROUGE, AOC/AOP, IGP or PECHE_DURABLE; the purchases
\* counted under hve, rouge and aocAopIgp are counted under sustainable too.
C8_SustainableAllEgalimLabels ==
    SummaryOk =>
        /\ response.body.sustainable =
             PriceTimesCount(
                 Filter(purchases,
                        LAMBDA p : Requested(p) /\ ~CarriesBio(p)
                                   /\ \E l \in {HVE, LABEL_ROUGE, AOCAOP, IGP, PECHE_DURABLE} :
                                        l \in p.characteristics),
                 MaxPrice)
        /\ \A k \in {"hve", "rouge", "aocAopIgp"} :
             response.body[k] <= response.body.sustainable

C8_Witness ==
    /\ SummaryOk
    /\ \E p, q \in DOMAIN purchases :
         /\ Requested(p) /\ p.characteristics = {HVE}
         /\ Requested(q) /\ q.characteristics = {PECHE_DURABLE}
         /\ response.body.sustainable = p.price_ht + q.price_ht
         /\ response.body.hve = p.price_ht

C10_ClaimOnManagedCanteenRejected ==
    [][\A u \in Users, c \in CanteenIds :
        (ClaimCanteen(u, c) /\ canteens[c].managers # {})
            => /\ response'.status = 400
               /\ canteens'[c].managers = canteens[c].managers
               /\ canteens'[c].claimed_by = canteens[c].claimed_by
               /\ canteens'[c].has_been_claimed = canteens[c].has_been_claimed
               /\ (~canteens[c].has_been_claimed => ~canteens'[c].has_been_claimed)
               /\ canteens' = canteens]_vars

C10_Witness ==
    /\ response.op = "claim"
    /\ response.status = 400
    /\ canteens[response.canteen].managers # {}
    /\ response.user \notin canteens[response.canteen].managers
    /\ ~canteens[response.canteen].has_been_claimed

\* ------------------------------------------------------- C11, C12, C13
\* the step just taken is an un-claim request by u on canteen c
UndoClaimRequested(u, c) ==
    /\ response'.op = "undo_claim"
    /\ response'.user = u
    /\ response'.canteen = c

\* the step just taken is a claim request by u on canteen c
ClaimRequested(u, c) ==
    /\ response'.op = "claim"
    /\ response'.user = u
    /\ response'.canteen = c

\* C11: an un-claim request by a manager of the canteen who is not its
\* claimed_by user answers 403 and changes nothing: the requester is still a
\* manager, has_been_claimed is still true, claimed_by is still the claimer.
C11_UndoClaimByOtherManagerForbidden ==
    [][\A u \in Users, c \in CanteenIds :
        (/\ UndoClaimRequested(u, c)
         /\ u \in canteens[c].managers
         /\ canteens[c].claimed_by \notin {u, None}
         /\ canteens[c].has_been_claimed)
            => /\ response'.status = 403
               /\ u \in canteens'[c].managers
               /\ canteens'[c].has_been_claimed
               /\ canteens'[c].claimed_by = canteens[c].claimed_by
               /\ canteens' = canteens]_vars

C11_Witness ==
    /\ response.op = "undo_claim"
    /\ response.status = 403
    /\ response.user \in canteens[response.canteen].managers
    /\ canteens[response.canteen].claimed_by \notin {response.user, None}
    /\ canteens[response.canteen].has_been_claimed

\* C12: a claim request on a canteen without manager succeeds whatever the
\* publication status, draft included: the requester becomes the only
\* manager and the claimed_by user, has_been_claimed becomes true; and the
\* public canBeClaimed flag is true exactly when the canteen has no manager.
C12_ClaimSucceedsOnUnmanagedCanteen ==
    [][/\ \A u \in Users, c \in CanteenIds :
            (ClaimRequested(u, c) /\ canteens[c].managers = {})
                => /\ response'.status = 200
                   /\ canteens'[c].managers = {u}
                   /\ canteens'[c].claimed_by = u
                   /\ canteens'[c].has_been_claimed
                   /\ canteens'[c].publication_status = canteens[c].publication_status
       /\ (response'.op = "single_published" /\ response'.status = 200)
            => (response'.body.canBeClaimed
                    <=> canteens[response'.canteen].managers = {})]_vars

\* a draft canteen has been claimed
C12_Witness ==
    /\ response.op = "claim"
    /\ response.status = 200
    /\ canteens[response.canteen].publication_status = "draft"
    /\ canteens[response.canteen].managers = {response.user}
    /\ canteens[response.canteen].claimed_by = response.user

\* C13: an un-claim request by the claimed_by user succeeds and reverses the
\* claim: the requester leaves the managers, claimed_by becomes null and
\* has_been_claimed false; an un-claim that follows the user's own claim
\* leaves the canteen without manager, claimable again.
C13_UndoClaimReversesClaim ==
    [][\A u \in Users, c \in CanteenIds :
        (UndoClaimRequested(u, c) /\ canteens[c].claimed_by = u)
            => /\ response'.status = 200
               /\ canteens'[c].managers = canteens[c].managers \ {u}
               /\ canteens'[c].claimed_by = None
               /\ ~canteens'[c].has_been_claimed
               /\ (/\ response.op = "claim"
                   /\ response.status = 200
                   /\ response.user = u
                   /\ response.canteen = c) => canteens'[c].managers = {}]_vars

\* the claimer has left a canteen that keeps its other manager
C13_Witness ==
    /\ response.op = "undo_claim"
    /\ response.status = 200
    /\ canteens[response.canteen].managers # {}
    /\ response.user \notin canteens[response.canteen].managers
    /\ canteens[response.canteen].claimed_by = None
    /\ ~canteens[response.canteen].has_been_claimed

\* ---------------------------------------------------------------- C14
\* the stored purchases of the canteens u manages
C14_Managed(u) == {p \in DOMAIN purchases : u \in canteens[p.canteen].managers}

\* C14: the purchase list, under every search and filter, and its filter
\* options (categories, characteristics, canteens) hold only data of
\* purchases of canteens the caller manages; an update or delete request on
\* a purchase of a canteen the caller does not manage answers 404 and leaves
\* the purchase stored and unmodified.
C14_PurchasesScopedToManagedCanteens ==
    /\ [](response.op = "purchase_list" =>
            LET mine == C14_Managed(response.user)
            IN /\ DOMAIN response.body.results \subseteq mine
               /\ \A p \in DOMAIN response.body.results :
                      response.body.results[p] <= purchases[p]
               /\ response.body.categories \subseteq {p.category : p \in mine}
               /\ response.body.characteristics
                      \subseteq UNION {p.characteristics : p \in mine}
               /\ response.body.canteens \subseteq {p.canteen : p \in mine})
    /\ [][(/\ response'.op \in {"purchase_update", "purchase_delete"}
           /\ response'.user \notin canteens[response'.body.target.canteen].managers)
            => /\ response'.status = 404
               /\ BagIn(response'.body.target, purchases')
               /\ purchases' = purchases]_vars

\* the caller's list leaves out a stored purchase of somebody else's canteen
C14_Witness ==
    /\ response.op = "purchase_list"
    /\ response.body.query.search = NoParam
    /\ response.body.query.canteen = None
    /\ BagCardinality(response.body.results) = 1
    /\ \E p \in DOMAIN purchases :
         /\ response.user \notin canteens[p.canteen].managers
         /\ p.category \notin response.body.categories
         /\ p.canteen \notin response.body.canteens

\* ---------------------------------------------------------------- C15
\* the canteen ids of a result page, as a set
ResultSet == {response.body.results[i] : i \in DOMAIN response.body.results}

\* C15: in the published list ordered by daily_meal_count, canteens whose
\* meal count is null come before every canteen with a value (0 included)
\* in ascending order and after all of them in descending order; canteens
\* with a value are in numerically ascending, respectively descending order.
C15_NullMealCountFirstAscendingLastDescending ==
    (response.op = "published_list"
     /\ response.body.query.ordering \in {"daily_meal_count", "-daily_meal_count"})
        => LET r == response.body.results
               n(i) == canteens[r[i]].daily_meal_count
               asc == response.body.query.ordering = "daily_meal_count"
           IN \A i, j \in DOMAIN r :
                i < j =>
                    /\ asc => ~(n(i) # NoCount /\ n(j) = NoCount)
                    /\ ~asc => ~(n(i) = NoCount /\ n(j) # NoCount)
                    /\ (n(i) # NoCount /\ n(j) # NoCount)
                          => IF asc THEN n(i) <= n(j) ELSE n(i) >= n(j)

\* ascending: the canteen without meal count stands before the one with 0,
\* although it was created after it
C15_Witness ==
    /\ response.op = "published_list"
    /\ response.body.query.ordering = "daily_meal_count"
    /\ response.body.query.min_daily_meal_count = NoCount
    /\ response.body.query.max_daily_meal_count = NoCount
    /\ response.body.results = <<2, 1>>
    /\ canteens[2].daily_meal_count = NoCount
    /\ canteens[1].daily_meal_count = 0

\* ---------------------------------------------------------------- C16
\* the published canteens matching the department filter of the request
C16_Base ==
    {c \in CanteenIds :
        /\ canteens[c].publication_status = "published"
        /\ response.body.query.department # NoParam
              => canteens[c].department = response.body.query.department}

\* C16: the facets of the published list (departments, sectors, management
\* types) are taken from the published canteens matching every filter but
\* the sector filter, so the sectors parameter never changes them; a sector
\* no published canteen uses is not listed, nor a null department or
\* management type.
C16_FacetsIgnoreSectorFilter ==
    response.op = "published_list" =>
        /\ response.body.sectors = UNION {canteens[c].sectors : c \in C16_Base}
        /\ response.body.departments
              = {canteens[c].department : c \in C16_Base} \ {NoDepartment}
        /\ response.body.managementTypes
              = {canteens[c].management_type : c \in C16_Base} \ {NoManagementType}
        /\ NoDepartment \notin response.body.departments
        /\ NoManagementType \notin response.body.managementTypes
        /\ \A x \in response.body.sectors :
              \E c \in CanteenIds : /\ canteens[c].publication_status = "published"
                                    /\ x \in canteens[c].sectors

\* filtered on sector 1, the page still offers sector 2 and the department
\* of the canteen it leaves out
C16_Witness ==
    /\ response.op = "published_list"
    /\ response.body.query.sectors = {1}
    /\ response.body.query.department = NoParam
    /\ Len(response.body.results) = 1
    /\ response.body.sectors = {1, 2}
    /\ \E c \in CanteenIds \ ResultSet :
          /\ canteens[c].sectors = {2}
          /\ canteens[c].department \in response.body.departments
          /\ canteens[c].department \notin {canteens[k].department : k \in ResultSet}

\* ---------------------------------------------------------- C17, C18
\* a <= b for fractions <<numerator, denominator>>
FractionLeq(a, b) == a[1] * b[2] <= b[1] * a[2]
FractionMax(a, b) == IF FractionLeq(a, b) THEN b ELSE a

\* bio and combined shares of a diagnostic with total > 0
C17_Bio(d) ==
    <<IF "value_bio_ht" \in DOMAIN d.values THEN d.values["value_bio_ht"] ELSE 0,
      d.values["value_total_ht"]>>

C17_Combined(d) ==
    LET v(name) == IF name \in DOMAIN d.values THEN d.values[name] ELSE 0
    IN <<v("value_bio_ht") + v("value_sustainable_ht")
            + v("value_externality_performance_ht") + v("value_egalim_others_ht"),
         d.values["value_total_ht"]>>

\* a diagnostic of the publication year with total > 0 that meets the
\* thresholds bio and combined
C17_Meets(d, bio, combined) ==
    /\ d.year = PublicationYear
    /\ "value_total_ht" \in DOMAIN d.values
    /\ d.values["value_total_ht"] > 0
    /\ FractionLeq(bio, C17_Bio(d))
    /\ FractionLeq(combined, C17_Combined(d))

C17_Filtered ==
    /\ response.op = "published_list"
    /\ \/ response.body.query.min_portion_bio # NoThreshold
       \/ response.body.query.min_portion_combined # NoThreshold
       \/ response.body.query.badge # NoParam

\* C17 as stated: under a percentage threshold or badge filter, every
\* returned canteen has a diagnostic of its own for year (current year - 1)
\* with total > 0 that meets the thresholds.
C17_OnlyOwnPublicationYearDiagnostic ==
    C17_Filtered =>
        \A c \in ResultSet :
            \E d \in diagnostics :
                /\ d.canteen = c
                /\ C17_Meets(d, response.body.query.min_portion_bio,
                             response.body.query.min_portion_combined)

\* C17: under a percentage threshold or badge filter, every returned canteen
\* is returned on the strength of a diagnostic of year (current year - 1)
\* with total > 0 that meets the thresholds, its own or, for a satellite,
\* the one of the canteen whose siret is its central_producer_siret;
\* diagnostics of other years never count.
C17_OnlyPublicationYearDiagnostic ==
    C17_Filtered =>
        \A c \in ResultSet :
            \E d \in diagnostics :
                /\ \/ d.canteen = c
                   \/ /\ canteens[c].central_producer_siret # None
                      /\ canteens[d.canteen].siret = canteens[c].central_producer_siret
                /\ C17_Meets(d, response.body.query.min_portion_bio,
                             response.body.query.min_portion_combined)

\* a published canteen is left out: its diagnostic of the year before meets
\* the threshold, its diagnostic of the publication year does not
C17_Witness ==
    /\ response.op = "published_list"
    /\ response.body.query.min_portion_bio = <<1, 5>>
    /\ response.body.query.badge = NoParam
    /\ \E c \in CanteenIds \ ResultSet :
          /\ canteens[c].publication_status = "published"
          /\ \E d, e \in diagnostics :
                /\ d.canteen = c /\ d.year = PublicationYear - 1
                /\ d.values = GoodValues
                /\ e.canteen = c /\ e.year = PublicationYear
                /\ e.values = GuadeloupeValues

\* the appro badge's minimums in the region of canteen c
C18_BadgeBio(c) == <<IF canteens[c].region = Guadeloupe THEN 5 ELSE 20, 100>>
C18_BadgeCombined(c) == <<IF canteens[c].region = Guadeloupe THEN 20 ELSE 50, 100>>

\* what the same request returns with the badge alone
C18_BadgeAlone ==
    FilterCanteens(PublishedCanteens,
                   [response.body.query EXCEPT !.min_portion_bio = NoThreshold,
                                               !.min_portion_combined = NoThreshold])

\* C18: with badge=appro and an explicit threshold, every returned canteen
\* meets the higher of the badge minimum of its region and the explicit
\* threshold; a threshold not above the regional minimum changes nothing to
\* the badge-only result, a higher one returns a subset of it.
C18_StricterThresholdWins ==
    (response.op = "published_list" /\ response.body.query.badge = "appro")
        => LET q == response.body.query
           IN /\ \A c \in ResultSet :
                    \E d \in diagnostics :
                        /\ \/ d.canteen = c
                           \/ /\ canteens[c].central_producer_siret # None
                              /\ canteens[d.canteen].siret
                                    = canteens[c].central_producer_siret
                        /\ C17_Meets(d, FractionMax(C18_BadgeBio(c), q.min_portion_bio),
                                     FractionMax(C18_BadgeCombined(c),
                                                 q.min_portion_combined))
              /\ ResultSet \subseteq C18_BadgeAlone
              /\ \A c \in C18_BadgeAlone :
                    (/\ FractionLeq(q.min_portion_bio, C18_BadgeBio(c))
                     /\ FractionLeq(q.min_portion_combined, C18_BadgeCombined(c)))
                        => c \in ResultSet

\* badge and min_portion_combined = 0.5: the Guadeloupe canteen that earns
\* the badge with 20 % is left out, the other canteen stays
C18_Witness ==
    /\ response.op = "published_list"
    /\ response.body.query.badge = "appro"
    /\ response.body.query.min_portion_combined = <<1, 2>>
    /\ Len(response.body.results) = 1
    /\ \E c \in C18_BadgeAlone \ ResultSet :
          /\ canteens[c].region = Guadeloupe
          /\ \E d \in diagnostics : d.canteen = c /\ d.values = GuadeloupeValues

\* ------------------------------------------------- export claims
ExportedRows == {response.body.rows[i] : i \in DOMAIN response.body.rows}

PoliceCanteens == {c \in CanteenIds : PoliceSectorId \in canteens[c].sectors}

C20_LookupFailureGivesNullEpci ==
    (response.op = "extract_registry" /\ response.body.lookup \in LookupFailures)
        => /\ response.body.exception = NoException
           /\ \A r \in ExportedRows : r.epci = NoEpci

\* ---------------------------------------------------------------- C30
\* C30: from canteens created unclaimed, after any sequence of claim and
\* un-claim requests by any users, accepted or rejected, has_been_claimed is
\* true exactly when claimed_by is set, the claimed_by user is one of the
\* managers, and a claim is accepted only on a canteen nobody holds: no
\* second claim succeeds while the claimer is still a manager.
C30_ClaimLifeCycle ==
    /\ [](\A c \in CanteenIds :
            /\ canteens[c].has_been_claimed <=> canteens[c].claimed_by # None
            /\ canteens[c].claimed_by # None
                  => canteens[c].claimed_by \in canteens[c].managers)
    /\ [][\A u \in Users, c \in CanteenIds :
            (ClaimRequested(u, c) /\ response'.status = 200)
                => /\ canteens[c].claimed_by = None
                   /\ canteens[c].managers = {}
                   /\ canteens'[c].claimed_by = u
                   /\ \A d \in CanteenIds \ {c} : canteens'[d] = canteens[d]]_vars

\* a claim accepted, its claimer the only manager of the canteen, while the
\* other canteen is held by the other user
C30_Witness ==
    /\ response.op = "claim"
    /\ response.status = 200
    /\ \E c \in CanteenIds :
          /\ response.canteen = c
          /\ canteens[c].claimed_by = response.user
          /\ canteens[c].managers = {response.user}
    /\ \E c \in CanteenIds :
          /\ canteens[c].claimed_by \notin {None, response.user}

\* ---------------------------------------------------------------- C29
\* the purchase rows the step has added to the table
C29_Added == {p \in DOMAIN purchases' : CopiesIn(p, purchases') > CopiesIn(p, purchases)}

\* C29: no request attaches a purchase to a canteen its caller does not
\* manage. A create for an existing canteen somebody else manages answers
\* 403, an update by a manager of the purchase's canteen that names a canteen
\* the caller does not manage answers 403, a create for a canteen id that
\* does not exist answers 404, and a create, update, delete or summary that
\* is not authenticated answers 403; none of them changes the table.
C29_NoPurchaseOnUnmanagedCanteen ==
    [][/\ response'.op \in {"purchase_create", "purchase_update", "purchase_delete"}
            => \A p \in C29_Added :
                  /\ response'.user # None
                  /\ response'.user \in canteens[p.canteen].managers
       /\ (/\ response'.op = "purchase_create"
           /\ response'.user # None
           /\ response'.canteen \in CanteenIds
           /\ response'.user \notin canteens[response'.canteen].managers)
            => response'.status = 403 /\ purchases' = purchases
       /\ (/\ response'.op = "purchase_create"
           /\ response'.user # None
           /\ response'.canteen \notin CanteenIds)
            => response'.status = 404 /\ purchases' = purchases
       /\ (/\ response'.op = "purchase_update"
           /\ response'.user \in canteens[response'.canteen].managers
           /\ response'.body.payload # None
           /\ response'.user \notin canteens[response'.body.payload].managers)
            => response'.status = 403 /\ purchases' = purchases
       /\ (/\ response'.op \in {"purchase_create", "purchase_update",
                                "purchase_delete", "summary"}
           /\ response'.user = None)
            => response'.status = 403 /\ purchases' = purchases]_vars

\* a manager of the purchase's canteen was refused the move of the purchase
\* to the other canteen, which the other user manages; the purchase is stored
\* as it was
C29_Witness ==
    /\ response.op = "purchase_update"
    /\ response.status = 403
    /\ response.user \in canteens[response.canteen].managers
    /\ response.body.payload # None
    /\ response.user \notin canteens[response.body.payload].managers
    /\ canteens[response.body.payload].managers # {}
    /\ BagIn(response.body.target, purchases)

\* ---------------------------------------------------------------- C28
\* the thresholds canteen c has to meet under the request q
C28_Bio(c, q) ==
    IF q.badge = "appro" THEN FractionMax(C18_BadgeBio(c), q.min_portion_bio)
    ELSE q.min_portion_bio

C28_Combined(c, q) ==
    IF q.badge = "appro" THEN FractionMax(C18_BadgeCombined(c), q.min_portion_combined)
    ELSE q.min_portion_combined

\* the central kitchens of satellite c: draft or published
C28_Centrals(c) ==
    {k \in CanteenIds :
        /\ canteens[c].production_type = "ON_SITE_CENTRAL"
        /\ canteens[c].central_producer_siret # None
        /\ canteens[k].production_type = "CENTRAL"
        /\ canteens[k].siret = canteens[c].central_producer_siret}

\* C28: under a percentage threshold or badge filter, a published canteen is
\* returned as soon as a diagnostic of the year before, with total > 0, meets
\* the thresholds with its null components counted as zero, be it its own or,
\* for a satellite, the one of its central kitchen, draft central kitchens
\* included; a satellite without diagnostic of its own is returned that way;
\* no draft canteen is ever returned.
C28_SatelliteJudgedOnCentralKitchen ==
    C17_Filtered =>
        LET q == response.body.query
        IN /\ \A c \in CanteenIds :
                (/\ canteens[c].publication_status = "published"
                 /\ \E d \in diagnostics :
                       /\ d.canteen \in {c} \cup C28_Centrals(c)
                       /\ C17_Meets(d, C28_Bio(c, q), C28_Combined(c, q)))
                    => c \in ResultSet
           /\ \A c \in ResultSet : canteens[c].publication_status = "published"

\* min_portion_combined = 0.5 returns a published satellite without
\* diagnostic, on the diagnostic of its draft central kitchen whose bio and
\* sustainable values are null, and not the central kitchen
C28_Witness ==
    /\ response.op = "published_list"
    /\ response.body.query.min_portion_combined = <<1, 2>>
    /\ response.body.query.badge = NoParam
    /\ \E c \in ResultSet, k \in CanteenIds \ ResultSet :
          /\ k \in C28_Centrals(c)
          /\ canteens[k].publication_status = "draft"
          /\ ~\E d \in diagnostics : d.canteen = c
          /\ \E d \in diagnostics :
                /\ d.canteen = k
                /\ d.year = PublicationYear
                /\ d.values = SustainableValues

\* ---------------------------------------------------------------- C27
\* the EGAlim quality characteristics that are not bio
C27_QualityLabels == {HVE, LABEL_ROUGE, AOCAOP, IGP, STG, PECHE_DURABLE}

\* a purchase counted under sustainable: not bio, with a quality label
C27_Qualifies(p) == ~CarriesBio(p) /\ p.characteristics \cap C27_QualityLabels # {}

\* sustainable holds every non-bio purchase with a quality label, those
\* counted under hve, rouge and aocAopIgp and those labelled PECHE_DURABLE
\* only, and bio, sustainable and the purchases without qualifying
\* characteristic make up the total
C27_SustainableAndTotal ==
    /\ \A p \in DOMAIN purchases :
          Requested(p) =>
             /\ C27_Qualifies(p)
                   <=> response.body.sustainable
                          = SummaryWithout(p).sustainable + p.price_ht
             /\ \A k \in {"hve", "rouge", "aocAopIgp"} :
                   response.body[k] # SummaryWithout(p)[k] => C27_Qualifies(p)
    /\ response.body.bio + response.body.sustainable
          + PriceTimesCount(
                Filter(purchases,
                       LAMBDA p : Requested(p) /\ ~CarriesBio(p) /\ ~C27_Qualifies(p)),
                MaxPrice)
          = response.body.total

\* C27 as stated: the sustainable total holds every non-bio purchase of the
\* year with a quality characteristic, hence hve + rouge + aocAopIgp <=
\* sustainable, and bio + sustainable + the purchases without qualifying
\* characteristic = total.
C27_BucketsSumWithinSustainable ==
    SummaryOk =>
        /\ C27_SustainableAndTotal
        /\ response.body.hve + response.body.rouge + response.body.aocAopIgp
              <= response.body.sustainable

\* C27: the sustainable total holds every non-bio purchase of the year with a
\* quality characteristic; hve, rouge and aocAopIgp are each at most
\* sustainable, while their sum may exceed it, a purchase with labels of two
\* of them being counted under both and once under sustainable; bio +
\* sustainable + the purchases without qualifying characteristic = total.
C27_EachBucketWithinSustainable ==
    SummaryOk =>
        /\ C27_SustainableAndTotal
        /\ response.body.hve <= response.body.sustainable
        /\ response.body.rouge <= response.body.sustainable
        /\ response.body.aocAopIgp <= response.body.sustainable

\* a purchase labelled HVE and LABEL_ROUGE beside one without label: counted
\* under hve, under rouge and once under sustainable
C27_Witness ==
    /\ SummaryOk
    /\ \E p, q \in DOMAIN purchases :
         /\ Requested(p) /\ p.characteristics = {HVE, LABEL_ROUGE}
         /\ Requested(q) /\ q.characteristics = {}
         /\ response.body.hve = p.price_ht
         /\ response.body.rouge = p.price_ht
         /\ response.body.sustainable = p.price_ht
         /\ response.body.total = p.price_ht + q.price_ht

\* ---------------------------------------------------------------- C26
\* the labels of the recognized items of a list, last item first
RECURSIVE C26_Labels(_)
C26_Labels(items) ==
    IF items = <<>> THEN <<>>
    ELSE LET last == items[Len(items)]
             front == C26_Labels(SubSeq(items, 1, Len(items) - 1))
         IN IF last \in DOMAIN CharacteristicLabels
            THEN Append(front, CharacteristicLabels[last])
            ELSE front

\* the labels separated by a comma and a space
RECURSIVE C26_CommaJoined(_)
C26_CommaJoined(labels) ==
    IF Len(labels) = 1 THEN labels[1]
    ELSE C26_CommaJoined(SubSeq(labels, 1, Len(labels) - 1))
            \o ", " \o labels[Len(labels)]

\* C26: the readable labels of a purchase never raise, whatever is stored.
\* readable_characteristics is the comma-joined labels of exactly the
\* recognized characteristics in stored order, unrecognized ones skipped, and
\* None when the list is null, empty or without recognized value;
\* readable_category is the label of a recognized category and None for a
\* null or unrecognized one.
C26_ReadableLabelsNeverRaise ==
    /\ response.op = "readable_characteristics" =>
          LET stored == response.body.target.characteristics
              labels == C26_Labels(stored.items)
          IN /\ response.body.exception = NoException
             /\ response.body.value =
                   IF stored.null \/ labels = <<>> THEN Null
                   ELSE C26_CommaJoined(labels)
    /\ response.op = "readable_category" =>
          LET stored == response.body.target.category
          IN /\ response.body.exception = NoException
             /\ response.body.value =
                   IF stored \in DOMAIN CategoryLabels THEN CategoryLabels[stored]
                   ELSE Null

\* a list with a recognized, an unrecognized and a recognized value gives
\* the two labels in stored order
C26_Witness ==
    /\ response.op = "readable_characteristics"
    /\ response.body.target.characteristics.items = <<IGP, "IGP", BIO>>
    /\ response.body.value = "Indication geographique protegee, Bio"

\* ---------------------------------------------------------------- C25
\* the canteens the registry export is about: not deleted, without the
\* police sector
RegistryCanteens ==
    {c \in CanteenIds : /\ canteens[c].deletion_date = None
                        /\ PoliceSectorId \notin canteens[c].sectors}

C25_RowsOf(c) == {i \in DOMAIN response.body.rows : response.body.rows[i].id = c}

C25_SectorIds(row) == {row.sectors[k].id : k \in DOMAIN row.sectors}

\* C25: a dataset extracted for the registry or for a campaign has at most
\* one row per id; a registry extraction that completes has exactly one row
\* for every canteen it is about, and the sectors value of that row lists
\* every sector of the canteen once: several for a canteen with several
\* sectors, the empty list for a canteen without sector
C25_OneRowPerId ==
    /\ response.op \in {"extract_registry", "extract_campaign"}
          => \A i, j \in DOMAIN response.body.rows :
                response.body.rows[i].id = response.body.rows[j].id => i = j
    /\ (response.op = "extract_registry" /\ response.body.exception = NoException)
          => \A c \in RegistryCanteens :
                /\ Cardinality(C25_RowsOf(c)) = 1
                /\ \A i \in C25_RowsOf(c) :
                      /\ C25_SectorIds(response.body.rows[i]) = canteens[c].sectors
                      /\ Len(response.body.rows[i].sectors)
                            = Cardinality(canteens[c].sectors)

\* a completed registry extraction over a canteen with two sectors and a
\* canteen without sector, both exported
C25_Witness ==
    /\ response.op = "extract_registry"
    /\ response.body.exception = NoException
    /\ \E c, d \in RegistryCanteens :
          /\ canteens[c].sectors = {SchoolSectorId, CompanySectorId}
          /\ canteens[d].sectors = {}
          /\ \E i, j \in DOMAIN response.body.rows :
                /\ response.body.rows[i].id = c
                /\ Len(response.body.rows[i].sectors) = 2
                /\ response.body.rows[j].id = d
                /\ response.body.rows[j].sectors = <<>>

\* ---------------------------------------------------------------- C24
\* C24: no row of a registry extraction and no row of a campaign extraction
\* concerns a canteen whose deletion_date is set
C24_SoftDeletedCanteenInNoExport ==
    /\ response.op = "extract_registry"
          => \A r \in ExportedRows : canteens[r.id].deletion_date = None
    /\ response.op = "extract_campaign"
          => \A r \in ExportedRows : canteens[r.canteen_id].deletion_date = None

\* ---------------------------------------------------------------- C23
\* what a cache-less fetch_sector returns: a read of the Sector table
C23_FreshSector(sector_id) ==
    IF sector_id = NoSector THEN <<>> ELSE <<SerializedSector(sector_id)>>

C23_FreshSectors(c) ==
    LET ss == Ascending(canteens[c].sectors)
    IN [k \in DOMAIN ss |-> SerializedSector(ss[k])]

\* C23: whatever fetch_sector calls, job runs, sector renamings and cache
\* expirations came before, fetch_sector(sector_id) returns what a read of
\* the Sector table returns, and the sectors column a job run computes is
\* the one computed from the Sector table
C23_CacheIsPureMemoization ==
    /\ response.op = "fetch_sector"
          => response.body.sector = C23_FreshSector(response.body.sector_id)
    /\ response.op = "run_job"
          => \A i \in DOMAIN response.body.rows :
                response.body.rows[i].sectors = C23_FreshSectors(response.body.rows[i].id)

\* ---------------------------------------------------------------- C21
\* C21: a run of the export job that follows another run, with no change of
\* the canteens or of the Sector table in between, the same outcome of the
\* commune lookup and the same validation report, leaves the files the
\* earlier run left
C21_RerunGivesSameFiles ==
    [][(/\ response.op = "run_job"
        /\ response'.op = "run_job"
        /\ response'.body.lookup = response.body.lookup
        /\ response'.body.validated = response.body.validated
        /\ response'.body.report = response.body.report)
            => default_storage' = default_storage]_vars

\* ---------------------------------------------------------------- C22
C22_StagedFile == ToValidateFile(RegistryDataset)

C22_FinalFile == ValidatedFile(RegistryDataset)

\* C22: after a job run whose validation report has errors, no exception
\* was raised, is_valid returned 0 and the errors of the report were logged,
\* the staging file holds the extracted dataset, and the final file is as it
\* was before the run: absent if it was absent, else with the same content
C22_FailedValidationBlocksPromotion ==
    [][(/\ response'.op = "run_job"
        /\ response'.body.validated
        /\ Len(response'.body.report) > 0)
            => /\ response'.body.exception = NoException
               /\ response'.body.is_valid = 0
               /\ Len(response'.body.logged) = 2
               /\ response'.body.logged[2] = response'.body.report
               /\ C22_StagedFile \in DOMAIN default_storage'
               /\ default_storage'[C22_StagedFile] = to_csv(response'.body.rows)
               /\ (C22_FinalFile \in DOMAIN default_storage')
                     <=> (C22_FinalFile \in DOMAIN default_storage)
               /\ C22_FinalFile \in DOMAIN default_storage
                     => default_storage'[C22_FinalFile] = default_storage[C22_FinalFile]]_vars

\* a job run whose validation reported errors, while a final file published
\* by an earlier run is stored, with a content other than the staged one
C22_Witness ==
    /\ response.op = "run_job"
    /\ response.body.validated
    /\ Len(response.body.report) > 0
    /\ C22_FinalFile \in DOMAIN default_storage
    /\ default_storage[C22_FinalFile] # default_storage[C22_StagedFile]

====
